---- MODULE Spec2Model ----
(***************************************************************************)
(* Unit-disk-mapping grid construction of qamomile/udm/copyline.py:        *)
(* the CopyLine factory (create_copylines), the CrossingLattice block      *)
(* query (__getitem__) and the geometry emitter (copyline_locations);      *)
(* and the PennyLane transpiler of qamomile/pennylane/transpiler.py:       *)
(* transpile_hamiltonian and the gate application of transpile_circuit.    *)
(***************************************************************************)
EXTENDS Integers, Sequences, FiniteSets

VARIABLES created, lattice, answer, emitted, transpiled, applied

vars == <<created, lattice, answer, emitted, transpiled, applied>>

(***************************************************************************)
(* Bounds of the model.                                                    *)
(***************************************************************************)
\* Largest number of graph vertices in the factory pipeline.
MaxN == 3
\* Largest slot / start / stop value of a CopyLine given to the emitter.
MaxSlot == 3
\* Largest padding given to the emitter.
MaxPadding == 2
\* Largest slot value, and lattice side, of a hand-built lattice.
MaxDim == 2
\* Largest number of graph vertices, and largest padding, where calls repeat.
MaxPureN == 2
MaxPurePadding == 1

(***************************************************************************)
(* Sequence helpers.                                                       *)
(***************************************************************************)
SeqsUpTo(S, n) == UNION {[1..k -> S] : k \in 0..n}

Range(s) == {s[k] : k \in 1..Len(s)}

(***************************************************************************)
(* Data model.                                                             *)
(***************************************************************************)
\* The "no line" / "not applicable" value of a Block field.
Sentinel == -1

CopyLine(vertex, vslot, hslot, vstart, vstop, hstop) ==
    [vertex |-> vertex, vslot |-> vslot, hslot |-> hslot,
     vstart |-> vstart, vstop |-> vstop, hstop |-> hstop]

Block(top, bottom, left, right, connected) ==
    [top |-> top, bottom |-> bottom, left |-> left, right |-> right,
     connected |-> connected]

\* A weighted grid point (row i, column j, weight w).
Node(i, j, w) == [i |-> i, j |-> j, weight |-> w]

\* The unit weight a Node carries when it is built without a weight.
ONE_INSTANCE == "ONE"

\* An undirected graph: a node set and a set of two-element edges.
Graph(nodes, edges) == [nodes |-> nodes, edges |-> edges]

has_edge(graph, u, v) == {u, v} \in graph.edges

(***************************************************************************)
(* Geometry emitter.                                                       *)
(***************************************************************************)
\* The spacing factor s.
Spacing == 4

center_location(tc, padding) ==
    [I |-> Spacing * (tc.hslot - 1) + padding + 2,
     J |-> Spacing * (tc.vslot - 1) + padding + 1]

node_from_type(node_type, i, j, w) ==
    IF node_type = "UnWeightedNode"
    THEN Node(i, j, ONE_INSTANCE)
    ELSE Node(i, j, w)

\* Mutant of GrowUp: the half weight lands on the first node of the run.
GrowUp_half_first(node_type, I, J, start) ==
    [k \in 1..(IF start <= I THEN I - start + 1 ELSE 0) |->
        node_from_type(node_type, I - k + 1, J,
                       1 + (IF I - k + 1 # I THEN 1 ELSE 0))]

\* for i in range(I, start-1, -1): append (i, J, 1 + (i != start))
GrowUp(node_type, I, J, start) ==
    [k \in 1..(IF start <= I THEN I - start + 1 ELSE 0) |->
        node_from_type(node_type, I - k + 1, J,
                       1 + (IF I - k + 1 # start THEN 1 ELSE 0))]

\* Mutant of GrowDown: the turn node is emitted even when the run is empty.
GrowDown_always_turn(node_type, I, J, stop) ==
    [k \in 1..(IF I <= stop THEN stop - I + 1 ELSE 1) |->
        IF I + k - 1 = I
        THEN node_from_type(node_type, I + k - 1 + 1, J + 1, 2)
        ELSE node_from_type(node_type, I + k - 1, J,
                            1 + (IF I + k - 1 # stop THEN 1 ELSE 0))]

\* Mutant of GrowDown: the turn node is placed in the line's own column.
GrowDown_turn_in_column(node_type, I, J, stop) ==
    [k \in 1..(IF I <= stop THEN stop - I + 1 ELSE 0) |->
        IF I + k - 1 = I
        THEN node_from_type(node_type, I + k - 1 + 1, J, 2)
        ELSE node_from_type(node_type, I + k - 1, J,
                            1 + (IF I + k - 1 # stop THEN 1 ELSE 0))]

\* for i in range(I, stop+1): the turn node at i == I, else (i, J, 1 + (i != stop))
GrowDown(node_type, I, J, stop) ==
    [k \in 1..(IF I <= stop THEN stop - I + 1 ELSE 0) |->
        IF I + k - 1 = I
        THEN node_from_type(node_type, I + k - 1 + 1, J + 1, 2)
        ELSE node_from_type(node_type, I + k - 1, J,
                            1 + (IF I + k - 1 # stop THEN 1 ELSE 0))]

\* Mutant of GrowRight: the run starts at J+1, on the center's column.
GrowRight_from_center(node_type, I, J, stop) ==
    [k \in 1..(IF J + 1 <= stop THEN stop - (J + 1) + 1 ELSE 0) |->
        node_from_type(node_type, I, J + 1 + k - 1,
                       1 + (IF J + 1 + k - 1 # stop THEN 1 ELSE 0))]

\* for j in range(J+2, stop+1): append (I, j, 1 + (j != stop))
GrowRight(node_type, I, J, stop) ==
    [k \in 1..(IF J + 2 <= stop THEN stop - (J + 2) + 1 ELSE 0) |->
        node_from_type(node_type, I, J + 2 + k - 1,
                       1 + (IF J + 2 + k - 1 # stop THEN 1 ELSE 0))]

\* Mutant of NLine: the downward direction counts when vstop >= hslot.
NLine_inclusive(tc) ==
    (IF tc.vstart < tc.hslot THEN 1 ELSE 0)
    + (IF tc.vstop >= tc.hslot THEN 1 ELSE 0)
    + (IF tc.hstop > tc.vslot THEN 1 ELSE 0)

\* nline: one for each direction whose guard holds.
NLine(tc) ==
    (IF tc.vstart < tc.hslot THEN 1 ELSE 0)
    + (IF tc.vstop > tc.hslot THEN 1 ELSE 0)
    + (IF tc.hstop > tc.vslot THEN 1 ELSE 0)

copyline_locations(node_type, tc, padding) ==
    LET c == center_location(tc, padding)
        I == c.I
        J == c.J
        start == I + Spacing * (tc.vstart - tc.hslot) + 1
        stopDown == I + Spacing * (tc.vstop - tc.hslot) - 1
        stopRight == J + Spacing * (tc.hstop - tc.vslot) - 1
    IN  GrowUp(node_type, I, J, start)
        \o GrowDown(node_type, I, J, stopDown)
        \o GrowRight(node_type, I, J, stopRight)
        \o <<node_from_type(node_type, I, J + 1, NLine(tc))>>

(***************************************************************************)
(* Call outcomes: a normal return carries one value, a raise carries none. *)
(***************************************************************************)
Return(v) == [raised |-> "none", value |-> <<v>>]

Raise(e) == [raised |-> e, value |-> <<>>]

(***************************************************************************)
(* Line factory.                                                           *)
(***************************************************************************)
\* Mutant of create_copylines: slots numbered from 0.
create_copylines_zero_based(g, vertex_order) ==
    LET n == Len(vertex_order)
    IN  Return([k \in 1..n |->
                  CopyLine(vertex_order[k], k - 1, k - 1, 1, n, n)])

\* n = len(vertex_order); one CopyLine per entry, in order; no validation.
create_copylines(g, vertex_order) ==
    LET n == Len(vertex_order)
    IN  Return([k \in 1..n |->
                  CopyLine(vertex_order[k], (k - 1) + 1, (k - 1) + 1, 1, n, n)])

(***************************************************************************)
(* Crossing lattice.                                                       *)
(***************************************************************************)
CrossingLattice(width, height, lines, graph) ==
    [width |-> width, height |-> height, lines |-> lines, graph |-> graph]

\* "Check vertical slot": the line's contribution to top / bottom at (i, j).
VerticalCheck(line, i, j, acc) ==
    IF line.vslot = j
    THEN IF line.vstart = line.vstop /\ line.vstop = i THEN acc
         ELSE IF line.vstart = i THEN [acc EXCEPT !.bottom = line.vertex]
         ELSE IF line.vstop = i THEN [acc EXCEPT !.top = line.vertex]
         ELSE IF line.vstart < i /\ i < line.vstop
              THEN [acc EXCEPT !.top = line.vertex, !.bottom = line.vertex]
         ELSE acc
    ELSE acc

\* Mutant of HorizontalCheck: the stopping-point branch is missing.
HorizontalCheck_no_stop(line, i, j, acc) ==
    IF line.hslot = i
    THEN IF line.vslot = line.hstop /\ line.hstop = j THEN acc
         ELSE IF line.vslot = j THEN [acc EXCEPT !.right = line.vertex]
         ELSE IF line.vslot < j /\ j < line.hstop
              THEN [acc EXCEPT !.left = line.vertex, !.right = line.vertex]
         ELSE acc
    ELSE acc

\* "Check horizontal slot": the line's contribution to left / right at (i, j).
HorizontalCheck(line, i, j, acc) ==
    IF line.hslot = i
    THEN IF line.vslot = line.hstop /\ line.hstop = j THEN acc
         ELSE IF line.vslot = j THEN [acc EXCEPT !.right = line.vertex]
         ELSE IF line.hstop = j THEN [acc EXCEPT !.left = line.vertex]
         ELSE IF line.vslot < j /\ j < line.hstop
              THEN [acc EXCEPT !.left = line.vertex, !.right = line.vertex]
         ELSE acc
    ELSE acc

\* for line in self.lines: vertical check, then horizontal check.
RECURSIVE ScanLines(_, _, _, _)
ScanLines(lines, i, j, acc) ==
    IF lines = <<>> THEN acc
    ELSE ScanLines(Tail(lines), i, j,
                   HorizontalCheck(Head(lines), i, j,
                                   VerticalCheck(Head(lines), i, j, acc)))

\* Mutant of Connectivity: a line crossing itself is "not applicable".
Connectivity_self_na(graph, sides) ==
    LET h == IF sides.left # Sentinel THEN sides.left ELSE sides.right
        v == IF sides.top # Sentinel THEN sides.top ELSE sides.bottom
    IN  IF v # Sentinel /\ h # Sentinel /\ h # v
        THEN (IF has_edge(graph, h, v) THEN 1 ELSE 0)
        ELSE Sentinel

\* Mutant of Connectivity: h and v prefer right and bottom.
Connectivity_right_first(graph, sides) ==
    LET h == IF sides.right # Sentinel THEN sides.right ELSE sides.left
        v == IF sides.bottom # Sentinel THEN sides.bottom ELSE sides.top
    IN  IF v # Sentinel /\ h # Sentinel
        THEN (IF has_edge(graph, h, v) THEN 1 ELSE 0)
        ELSE Sentinel

\* h, v and the connected value of the scanned sides.
Connectivity(graph, sides) ==
    LET h == IF sides.left # Sentinel THEN sides.left ELSE sides.right
        v == IF sides.top # Sentinel THEN sides.top ELSE sides.bottom
    IN  IF v # Sentinel /\ h # Sentinel
        THEN (IF has_edge(graph, h, v) THEN 1 ELSE 0)
        ELSE Sentinel

\* Mutant of InBounds: width and height exchanged.
InBounds_swapped(self, i, j) ==
    1 <= i /\ i <= self.width /\ 1 <= j /\ j <= self.height

\* 1 <= i <= self.height and 1 <= j <= self.width
InBounds(self, i, j) ==
    1 <= i /\ i <= self.height /\ 1 <= j /\ j <= self.width

__getitem__(self, indices) ==
    IF Len(indices) = 2
    THEN LET i == indices[1]
             j == indices[2]
         IN  IF ~InBounds(self, i, j) THEN Raise("IndexError")
             ELSE LET sides == ScanLines(self.lines, i, j,
                                 [top |-> Sentinel, bottom |-> Sentinel,
                                  left |-> Sentinel, right |-> Sentinel])
                  IN  Return(Block(sides.top, sides.bottom, sides.left,
                                   sides.right,
                                   Connectivity(self.graph, sides)))
    ELSE Raise("TypeError")

(***************************************************************************)
(* Inputs.                                                                 *)
(***************************************************************************)
NodeTypes == {"WeightedNode", "UnWeightedNode"}

\* Every CopyLine with fields in 1..MaxSlot, well formed or not.
EmitLines ==
    {CopyLine(0, vs, hs, a, b, h) :
        vs \in 1..MaxSlot, hs \in 1..MaxSlot, a \in 1..MaxSlot,
        b \in 1..MaxSlot, h \in 1..MaxSlot}

\* The simple graphs on the vertices 0..n-1.
SimpleGraphs(n) ==
    {Graph(0..(n - 1), E) :
        E \in SUBSET {e \in SUBSET (0..(n - 1)) : Cardinality(e) = 2}}

\* Graphs of the factory pipeline: up to MaxN vertices.
PipelineGraphs == UNION {SimpleGraphs(n) : n \in 0..MaxN}

\* Vertex orders, valid or not: the id MaxN is in no pipeline graph.
PipelineOrders == SeqsUpTo(0..MaxN, MaxN)

\* Vertex ids carried by the lines of a hand-built lattice.
LatticeVertices == {0, 1}

\* CopyLines with no constraint between their fields; a stop may lie one past
\* the slot range.
AnyLines ==
    [vertex : LatticeVertices, vslot : 1..MaxDim, hslot : 1..MaxDim,
     vstart : 1..MaxDim, vstop : 1..(MaxDim + 1), hstop : 1..(MaxDim + 1)]

\* CopyLines obeying vstart <= hslot <= vstop and vslot <= hstop.
WellFormedLines ==
    {l \in AnyLines :
        l.vstart <= l.hslot /\ l.hslot <= l.vstop /\ l.vslot <= l.hstop}

\* Line lists of a hand-built lattice: none, any one line, or two well-formed
\* lines that may share slots.
LatticeLineLists ==
    {<<>>} \cup {<<l>> : l \in AnyLines}
    \cup {<<l1, l2>> : l1 \in WellFormedLines, l2 \in WellFormedLines}

LatticeGraphs == {Graph(LatticeVertices, E) : E \in SUBSET {LatticeVertices}}

\* The coordinates asked of a lattice: every in-bounds one, a border of
\* out-of-range ones, and two index tuples that are not pairs.
QueryIndices(lat) ==
    {<<i, j>> : i \in 0..(lat.height + 1), j \in 0..(lat.width + 1)}
    \cup {<<1>>, <<1, 1, 1>>}

(***************************************************************************)
(* State machine.  Each behaviour makes each call at most once.            *)
(***************************************************************************)
Init ==
    /\ created = <<>>
    /\ lattice = <<>>
    /\ answer = <<>>
    /\ emitted = <<>>
    /\ transpiled = <<>>
    /\ applied = <<>>

\* copylines = create_copylines(g, vertex_order), for any graph and order.
CallCreateCopylines ==
    /\ created = <<>>
    /\ lattice = <<>>
    /\ \E g \in PipelineGraphs, vertex_order \in PipelineOrders :
          created' = <<[g |-> g, vertex_order |-> vertex_order,
                        outcome |-> create_copylines(g, vertex_order)]>>
    /\ UNCHANGED <<lattice, answer, emitted, transpiled, applied>>

\* CrossingLattice(n, n, copylines, g) over the factory's output.
BuildLattice ==
    /\ created # <<>>
    /\ created[1].outcome.raised = "none"
    /\ lattice = <<>>
    /\ LET lines == created[1].outcome.value[1]
       IN  lattice' = <<CrossingLattice(Len(lines), Len(lines), lines,
                                        created[1].g)>>
    /\ UNCHANGED <<created, answer, emitted, transpiled, applied>>

\* CrossingLattice(width, height, lines, graph) over given lines: MaxDim rows
\* and one column more, so that width and height differ.
ConstructLattice ==
    /\ created = <<>>
    /\ lattice = <<>>
    /\ \E lines \in LatticeLineLists, graph \in LatticeGraphs :
          lattice' = <<CrossingLattice(MaxDim + 1, MaxDim, lines, graph)>>
    /\ UNCHANGED <<created, answer, emitted, transpiled, applied>>

\* lattice[indices]
Query ==
    /\ lattice # <<>>
    /\ answer = <<>>
    /\ \E indices \in QueryIndices(lattice[1]) :
          answer' = <<[indices |-> indices,
                       outcome |-> __getitem__(lattice[1], indices)]>>
    /\ UNCHANGED <<created, lattice, emitted, transpiled, applied>>

\* copyline_locations(node_type, tc, padding)
Emit ==
    /\ emitted = <<>>
    /\ \E node_type \in NodeTypes, tc \in EmitLines, padding \in 0..MaxPadding :
          emitted' = <<[node_type |-> node_type, tc |-> tc,
                        padding |-> padding,
                        locations |->
                            copyline_locations(node_type, tc, padding)]>>
    /\ UNCHANGED <<created, lattice, answer, transpiled, applied>>

\* Factory pipeline: create_copylines, the lattice over its output, a query.
Next == CallCreateCopylines \/ BuildLattice \/ Query

Spec == Init /\ [][Next]_vars

\* Hand-built lattice: any listed lines and graph, a query.
NextLattice == ConstructLattice \/ Query

SpecLattice == Init /\ [][NextLattice]_vars

\* Emitter: one call of copyline_locations.
NextEmit == Emit

SpecEmit == Init /\ [][NextEmit]_vars

(***************************************************************************)
(* Statement-level execution.  A store holds the objects a call can reach  *)
(* (heap: the CrossingLattice object, its list of CopyLine objects and its *)
(* graph) and the local names of the running call (frame).  A CopyLine     *)
(* object is referred to by its position in self.lines, so a name bound to *)
(* a CopyLine holds a reference and every attribute read goes to the heap. *)
(***************************************************************************)
\* Below, CHOOSE result \in {F(x) : x \in {value}} : TRUE is F(value) with
\* value computed once, as a statement sees the store the one before it left.
Store(heap, frame) == [heap |-> heap, frame |-> frame]

\* name = value: rebinds a local name of the running call, or binds a new
\* one.
Assign(store, name, value) ==
    IF name \in DOMAIN store.frame
    THEN [store EXCEPT !.frame[name] = value]
    ELSE [store EXCEPT !.frame =
            [n \in (DOMAIN store.frame) \cup {name} |->
                IF n = name THEN value ELSE store.frame[n]]]

\* ref.field: reads an attribute of the CopyLine object ref refers to.
GetAttr(store, ref, field) == store.heap.lines[ref][field]

\* The end of a call: the heap it leaves and its return value or exception.
Ended(store, outcome) == [heap |-> store.heap, outcome |-> outcome]

\* i, j = indices
GetItemUnpack(store) ==
    Assign(Assign(store, "i", store.frame.indices[1]),
           "j", store.frame.indices[2])

\* left = right = top = bottom = -1
GetItemClear(store) ==
    Assign(Assign(Assign(Assign(store, "left", Sentinel),
                         "right", Sentinel),
                  "top", Sentinel),
           "bottom", Sentinel)

\* The "Check vertical slot" statement of the loop body.
GetItemVertical(store) ==
    LET line == store.frame.line
        i == store.frame.i
        j == store.frame.j
    IN  IF GetAttr(store, line, "vslot") = j
        THEN IF /\ GetAttr(store, line, "vstart")
                     = GetAttr(store, line, "vstop")
                /\ GetAttr(store, line, "vstop") = i
             THEN store
             ELSE IF GetAttr(store, line, "vstart") = i
             THEN Assign(store, "bottom", GetAttr(store, line, "vertex"))
             ELSE IF GetAttr(store, line, "vstop") = i
             THEN Assign(store, "top", GetAttr(store, line, "vertex"))
             ELSE IF /\ GetAttr(store, line, "vstart") < i
                     /\ i < GetAttr(store, line, "vstop")
             THEN Assign(Assign(store, "top",
                                GetAttr(store, line, "vertex")),
                         "bottom", GetAttr(store, line, "vertex"))
             ELSE store
        ELSE store

\* The "Check horizontal slot" statement of the loop body.
GetItemHorizontal(store) ==
    LET line == store.frame.line
        i == store.frame.i
        j == store.frame.j
    IN  IF GetAttr(store, line, "hslot") = i
        THEN IF /\ GetAttr(store, line, "vslot")
                     = GetAttr(store, line, "hstop")
                /\ GetAttr(store, line, "hstop") = j
             THEN store
             ELSE IF GetAttr(store, line, "vslot") = j
             THEN Assign(store, "right", GetAttr(store, line, "vertex"))
             ELSE IF GetAttr(store, line, "hstop") = j
             THEN Assign(store, "left", GetAttr(store, line, "vertex"))
             ELSE IF /\ GetAttr(store, line, "vslot") < j
                     /\ j < GetAttr(store, line, "hstop")
             THEN Assign(Assign(store, "left",
                                GetAttr(store, line, "vertex")),
                         "right", GetAttr(store, line, "vertex"))
             ELSE store
        ELSE store

\* for line in self.lines: from the k-th element of the list on.
RECURSIVE GetItemLoop(_, _)
GetItemLoop(store, k) ==
    IF k > Len(store.heap.lines) THEN store
    ELSE CHOOSE result \in
             {GetItemLoop(s3, k + 1) :
                 s3 \in {GetItemHorizontal(s2) :
                     s2 \in {GetItemVertical(s1) :
                         s1 \in {Assign(store, "line", k)}}}} : TRUE

\* h = ...; v = ...; connected = -1; if v != -1 and h != -1: connected = ...
GetItemConnect(store) ==
    LET s1 == Assign(store, "h",
                     IF store.frame.left # Sentinel
                     THEN store.frame.left ELSE store.frame.right)
        s2 == Assign(s1, "v",
                     IF s1.frame.top # Sentinel
                     THEN s1.frame.top ELSE s1.frame.bottom)
        s3 == Assign(s2, "connected", Sentinel)
    IN  IF s3.frame.v # Sentinel /\ s3.frame.h # Sentinel
        THEN Assign(s3, "connected",
                    IF has_edge(s3.heap.graph, s3.frame.h, s3.frame.v)
                    THEN 1 ELSE 0)
        ELSE s3

\* self[indices], statement by statement, on the heap self is part of.
ExecGetItem(heap, indices) ==
    LET s0 == Store(heap, [indices |-> indices])
    IN  IF Len(indices) = 2
        THEN LET s1 == GetItemUnpack(s0)
             IN  IF ~InBounds(s1.heap, s1.frame.i, s1.frame.j)
                 THEN Ended(s1, Raise("IndexError"))
                 ELSE CHOOSE result \in
                          {Ended(s4, Return(Block(s4.frame.top,
                                                  s4.frame.bottom,
                                                  s4.frame.left,
                                                  s4.frame.right,
                                                  s4.frame.connected))) :
                              s4 \in {GetItemConnect(s3) :
                                  s3 \in {GetItemLoop(s2, 1) :
                                      s2 \in {GetItemClear(s1)}}}} : TRUE
        ELSE Ended(s0, Raise("TypeError"))

\* center_location(tc, padding), statement by statement: s = 4; I = ...;
\* J = ...; return I, J.
ExecCenterLocation(heap, tc, padding) ==
    LET s0 == Store(heap, [tc |-> tc, padding |-> padding])
        s1 == Assign(s0, "s", Spacing)
        s2 == Assign(s1, "I",
                     s1.frame.s * (GetAttr(s1, s1.frame.tc, "hslot") - 1)
                     + s1.frame.padding + 2)
        s3 == Assign(s2, "J",
                     s2.frame.s * (GetAttr(s2, s2.frame.tc, "vslot") - 1)
                     + s2.frame.padding + 1)
    IN  Ended(s3, Return([I |-> s3.frame.I, J |-> s3.frame.J]))

\* s = 4; nline = 0; I, J = center_location(tc, padding=padding);
\* locations = []
EmitEnter(store) ==
    LET s1 == Assign(Assign(store, "s", Spacing), "nline", 0)
        call == ExecCenterLocation(s1.heap, s1.frame.tc, s1.frame.padding)
        s2 == Store(call.heap, s1.frame)
        s3 == Assign(Assign(s2, "I", call.outcome.value[1].I),
                     "J", call.outcome.value[1].J)
    IN  Assign(s3, "locations", <<>>)

\* start = I + s * (tc.vstart - tc.hslot) + 1
\* if tc.vstart < tc.hslot: nline += 1
GrowUpStart(store) ==
    LET tc == store.frame.tc
        s1 == Assign(store, "start",
                     store.frame.I
                     + store.frame.s * (GetAttr(store, tc, "vstart")
                                        - GetAttr(store, tc, "hslot"))
                     + 1)
    IN  IF GetAttr(s1, tc, "vstart") < GetAttr(s1, tc, "hslot")
        THEN Assign(s1, "nline", s1.frame.nline + 1)
        ELSE s1

\* weight = 1 + (1 if i != start else 0)
\* locations.append(node_from_type(node_type, i, J, weight))
GrowUpBody(store) ==
    LET s1 == Assign(store, "weight",
                     1 + (IF store.frame.i # store.frame.start
                          THEN 1 ELSE 0))
    IN  Assign(s1, "locations",
               Append(s1.frame.locations,
                      node_from_type(s1.frame.node_type, s1.frame.i,
                                     s1.frame.J, s1.frame.weight)))

\* for i in range(I, start-1, -1): from the value i on.
RECURSIVE GrowUpLoop(_, _)
GrowUpLoop(store, i) ==
    IF i < store.frame.start THEN store
    ELSE CHOOSE result \in
             {GrowUpLoop(s2, i - 1) :
                 s2 \in {GrowUpBody(s1) :
                     s1 \in {Assign(store, "i", i)}}} : TRUE

\* stop = I + s * (tc.vstop - tc.hslot) - 1
\* if tc.vstop > tc.hslot: nline += 1
GrowDownStop(store) ==
    LET tc == store.frame.tc
        s1 == Assign(store, "stop",
                     store.frame.I
                     + store.frame.s * (GetAttr(store, tc, "vstop")
                                        - GetAttr(store, tc, "hslot"))
                     - 1)
    IN  IF GetAttr(s1, tc, "vstop") > GetAttr(s1, tc, "hslot")
        THEN Assign(s1, "nline", s1.frame.nline + 1)
        ELSE s1

\* if i == I: locations.append(node_from_type(node_type, i+1, J+1, 2))
\* else: weight = 1 + (1 if i != stop else 0); locations.append(...)
GrowDownBody(store) ==
    IF store.frame.i = store.frame.I
    THEN Assign(store, "locations",
                Append(store.frame.locations,
                       node_from_type(store.frame.node_type,
                                      store.frame.i + 1, store.frame.J + 1,
                                      2)))
    ELSE LET s1 == Assign(store, "weight",
                          1 + (IF store.frame.i # store.frame.stop
                               THEN 1 ELSE 0))
         IN  Assign(s1, "locations",
                    Append(s1.frame.locations,
                           node_from_type(s1.frame.node_type, s1.frame.i,
                                          s1.frame.J, s1.frame.weight)))

\* for i in range(I, stop+1): from the value i on.
RECURSIVE GrowDownLoop(_, _)
GrowDownLoop(store, i) ==
    IF i > store.frame.stop THEN store
    ELSE CHOOSE result \in
             {GrowDownLoop(s2, i + 1) :
                 s2 \in {GrowDownBody(s1) :
                     s1 \in {Assign(store, "i", i)}}} : TRUE

\* Mutant of GrowRightStop: the stop column is also stored on the CopyLine.
GrowRightStop_on_line(store) ==
    LET tc == store.frame.tc
        stop == store.frame.J
                + store.frame.s * (GetAttr(store, tc, "hstop")
                                   - GetAttr(store, tc, "vslot"))
                - 1
        s1 == Assign([store EXCEPT !.heap.lines[tc].hstop = stop],
                     "stop", stop)
    IN  IF GetAttr(store, tc, "hstop") > GetAttr(store, tc, "vslot")
        THEN Assign(s1, "nline", s1.frame.nline + 1)
        ELSE s1

\* stop = J + s * (tc.hstop - tc.vslot) - 1
\* if tc.hstop > tc.vslot: nline += 1
GrowRightStop(store) ==
    LET tc == store.frame.tc
        s1 == Assign(store, "stop",
                     store.frame.J
                     + store.frame.s * (GetAttr(store, tc, "hstop")
                                        - GetAttr(store, tc, "vslot"))
                     - 1)
    IN  IF GetAttr(s1, tc, "hstop") > GetAttr(s1, tc, "vslot")
        THEN Assign(s1, "nline", s1.frame.nline + 1)
        ELSE s1

\* weight = 1 + (1 if j != stop else 0)
\* locations.append(node_from_type(node_type, I, j, weight))
GrowRightBody(store) ==
    LET s1 == Assign(store, "weight",
                     1 + (IF store.frame.j # store.frame.stop
                          THEN 1 ELSE 0))
    IN  Assign(s1, "locations",
               Append(s1.frame.locations,
                      node_from_type(s1.frame.node_type, s1.frame.I,
                                     s1.frame.j, s1.frame.weight)))

\* for j in range(J+2, stop+1): from the value j on.
RECURSIVE GrowRightLoop(_, _)
GrowRightLoop(store, j) ==
    IF j > store.frame.stop THEN store
    ELSE CHOOSE result \in
             {GrowRightLoop(s2, j + 1) :
                 s2 \in {GrowRightBody(s1) :
                     s1 \in {Assign(store, "j", j)}}} : TRUE

\* locations.append(node_from_type(node_type, I, J+1, nline))
EmitCenter(store) ==
    Assign(store, "locations",
           Append(store.frame.locations,
                  node_from_type(store.frame.node_type, store.frame.I,
                                 store.frame.J + 1, store.frame.nline)))

\* copyline_locations(node_type, tc, padding), statement by statement, tc
\* being a reference to a CopyLine object of the heap.
ExecCopylineLocations(heap, node_type, tc, padding) ==
    LET s0 == Store(heap, [node_type |-> node_type, tc |-> tc,
                           padding |-> padding])
    IN  CHOOSE result \in
          {Ended(s8, Return(s8.frame.locations)) :
            s8 \in {EmitCenter(s7) :
              s7 \in {GrowRightLoop(s6, s6.frame.J + 2) :
                s6 \in {GrowRightStop(s5) :
                  s5 \in {GrowDownLoop(s4, s4.frame.I) :
                    s4 \in {GrowDownStop(s3) :
                      s3 \in {GrowUpLoop(s2, s2.frame.I) :
                        s2 \in {GrowUpStart(s1) :
                          s1 \in {EmitEnter(s0)}}}}}}}}} : TRUE

(***************************************************************************)
(* Repeated calls on one lattice: queries and emissions in any order, each *)
(* run statement by statement on the heap the call before it left.         *)
(***************************************************************************)
\* The orders that list every element of a vertex set exactly once.
Permutations(nodes) ==
    {o \in [1..Cardinality(nodes) -> nodes] : Range(o) = nodes}

PureGraphs == UNION {SimpleGraphs(n) : n \in 0..MaxPureN}

\* The coordinates asked repeatedly of a lattice: every in-bounds one, one
\* row and one column past the end, and an index tuple that is not a pair.
RepeatIndices(lat) ==
    {<<i, j>> : i \in 1..(lat.height + 1), j \in 1..(lat.width + 1)}
    \cup {<<1>>}

\* The paddings of repeated emissions: none and the largest.
RepeatPaddings == {0, MaxPurePadding}

\* copylines = create_copylines(g, vertex_order), for a permutation order.
CreateForRepeats ==
    /\ created = <<>>
    /\ lattice = <<>>
    /\ \E g \in PureGraphs :
          \E vertex_order \in Permutations(g.nodes) :
             created' = <<[g |-> g, vertex_order |-> vertex_order,
                           outcome |-> create_copylines(g, vertex_order)]>>
    /\ UNCHANGED <<lattice, answer, emitted, transpiled, applied>>

\* lattice[indices], any number of times; the record says whether the call
\* before it was the same query.
QueryAgain ==
    /\ lattice # <<>>
    /\ \E indices \in RepeatIndices(lattice[1]) :
          \E call \in {ExecGetItem(lattice[1], indices)} :
              /\ answer' = <<[indices |-> indices,
                              outcome |-> call.outcome,
                              repeated |-> /\ answer # <<>>
                                           /\ answer[1].indices = indices]>>
              /\ lattice' = <<call.heap>>
    /\ UNCHANGED <<created, emitted, transpiled, applied>>

\* copyline_locations(node_type, lattice.lines[position], padding), any number
\* of times; the CopyLine is passed by reference; the record says whether the
\* call before it was the same emission.
EmitLine ==
    /\ lattice # <<>>
    /\ \E position \in 1..Len(lattice[1].lines), node_type \in NodeTypes,
          padding \in RepeatPaddings :
          \E call \in {ExecCopylineLocations(lattice[1], node_type,
                                               position, padding)} :
              /\ emitted' = <<[node_type |-> node_type,
                               tc |-> lattice[1].lines[position],
                               padding |-> padding, position |-> position,
                               locations |-> call.outcome.value[1],
                               repeated |-> /\ emitted # <<>>
                                            /\ emitted[1].node_type = node_type
                                            /\ emitted[1].position = position
                                            /\ emitted[1].padding = padding]>>
              /\ lattice' = <<call.heap>>
    /\ UNCHANGED <<created, answer, transpiled, applied>>

NextPure == CreateForRepeats \/ BuildLattice \/ QueryAgain \/ EmitLine

SpecPure == Init /\ [][NextPure]_vars

(***************************************************************************)
(* Properties of the line factory and of the crossing lattice.             *)
(***************************************************************************)
\* The order lists every vertex of g exactly once.
IsPermutation(vertex_order, g) ==
    /\ Len(vertex_order) = Cardinality(g.nodes)
    /\ Range(vertex_order) = g.nodes

\* Length mismatch, an id that is not in the graph, or a duplicate id.
IsInvalidOrder(vertex_order, g) ==
    \/ Len(vertex_order) # Cardinality(g.nodes)
    \/ \E k \in 1..Len(vertex_order) : vertex_order[k] \notin g.nodes
    \/ \E k, m \in 1..Len(vertex_order) :
          k # m /\ vertex_order[k] = vertex_order[m]

\* The horizontal and the vertical line vertex of a block.
BlockH(b) == IF b.left # -1 THEN b.left ELSE b.right

BlockV(b) == IF b.top # -1 THEN b.top ELSE b.bottom

\* The block the lattice returns at an in-bounds coordinate.
BlockAt(lat, i, j) == __getitem__(lat, <<i, j>>).value[1]

LatticeCoords(lat) == (1..lat.height) \X (1..lat.width)

\* The in-bounds coordinates whose two line vertices are u and v.
PairCoords(lat, u, v) ==
    {c \in LatticeCoords(lat) :
        LET b == BlockAt(lat, c[1], c[2])
        IN  /\ BlockH(b) # -1
            /\ BlockV(b) # -1
            /\ {BlockH(b), BlockV(b)} = {u, v}}

\* The lattice was built from create_copylines over a permutation order.
PermutationLattice ==
    /\ created # <<>>
    /\ lattice # <<>>
    /\ IsPermutation(created[1].vertex_order, created[1].g)

\* C1: for a graph with n vertices and an order that is a permutation of
\* them, create_copylines returns exactly n CopyLines in input order; the one
\* at 0-based position i has vertex = order[i], vslot = hslot = i+1,
\* vstart = 1, vstop = n and hstop = n.
C1_FactoryDiagonalFullSpan ==
    (created # <<>> /\ IsPermutation(created[1].vertex_order, created[1].g))
    => LET order == created[1].vertex_order
           n == Cardinality(created[1].g.nodes)
           out == created[1].outcome
       IN  /\ out.raised = "none"
           /\ Len(out.value) = 1
           /\ Len(out.value[1]) = n
           /\ \A i \in 0..(n - 1) :
                 LET line == out.value[1][i + 1]
                 IN  /\ line.vertex = order[i + 1]
                     /\ line.vslot = i + 1
                     /\ line.hslot = i + 1
                     /\ line.vstart = 1
                     /\ line.vstop = n
                     /\ line.hstop = n

\* Witness of C1: the factory ran on a three-vertex graph and a permutation
\* that is not the identity.
C1_Witness ==
    /\ created # <<>>
    /\ created[1].vertex_order = <<2, 0, 1>>
    /\ created[1].g.nodes = {0, 1, 2}
    /\ Len(created[1].outcome.value[1]) = 3

\* C2: in a lattice built from create_copylines over a simple graph and a
\* permutation order, for all positions a < b the block at (a, b) is the only
\* in-bounds coordinate whose horizontal and vertical line vertices are
\* order[a-1] and order[b-1] (0-based), its connected value is 1 if they are
\* adjacent and 0 otherwise, and every edge is reported connected at exactly
\* one coordinate; a query at (a, b) returns that block.
C2_UniqueCrossingPerPair ==
    PermutationLattice
    => LET order == created[1].vertex_order
           g == created[1].g
           lat == lattice[1]
           n == Len(order)
       IN  IF answer = <<>>
           THEN /\ \A a, b \in 1..n :
                      a < b =>
                        /\ PairCoords(lat, order[a], order[b]) = {<<a, b>>}
                        /\ BlockAt(lat, a, b).connected =
                             (IF {order[a], order[b]} \in g.edges THEN 1 ELSE 0)
                /\ \A e \in g.edges :
                      Cardinality({c \in LatticeCoords(lat) :
                          LET blk == BlockAt(lat, c[1], c[2])
                          IN  /\ blk.connected = 1
                              /\ {BlockH(blk), BlockV(blk)} = e}) = 1
           ELSE LET ind == answer[1].indices
                IN  (Len(ind) = 2 /\ 1 <= ind[1] /\ ind[1] < ind[2] /\ ind[2] <= n)
                    => /\ answer[1].outcome.raised = "none"
                       /\ LET blk == answer[1].outcome.value[1]
                          IN  /\ BlockH(blk) = order[ind[1]]
                              /\ BlockV(blk) = order[ind[2]]
                              /\ blk.connected =
                                   (IF {order[ind[1]], order[ind[2]]} \in g.edges
                                    THEN 1 ELSE 0)

\* Witness of C2: on a three-vertex graph the query at (1, 3), the stopping
\* point of line 1, reports an edge as connected.
C2_Witness ==
    /\ PermutationLattice
    /\ Len(created[1].vertex_order) = 3
    /\ answer # <<>>
    /\ answer[1].indices = <<1, 3>>
    /\ answer[1].outcome.raised = "none"
    /\ answer[1].outcome.value[1].connected = 1

\* C3 as stated: create_copylines fails with an invalid-input error, and
\* returns no CopyLine list, whenever the order's length differs from the
\* vertex count, or it holds an id not in the graph, or a duplicate id.
C3_InvalidOrderFails ==
    (created # <<>> /\ IsInvalidOrder(created[1].vertex_order, created[1].g))
    => /\ created[1].outcome.raised # "none"
       /\ created[1].outcome.value = <<>>

\* The scenario of C4: vertices {0,1,2}, edges {(0,1),(1,2)}, order [0,1,2],
\* the lattice built from create_copylines, and the query at (2, 2).
C4_Scenario ==
    /\ created # <<>>
    /\ created[1].g = Graph({0, 1, 2}, {{0, 1}, {1, 2}})
    /\ created[1].vertex_order = <<0, 1, 2>>
    /\ lattice # <<>>
    /\ answer # <<>>
    /\ answer[1].indices = <<2, 2>>

\* C4 as stated: in the scenario query(2,2) reports connected = -1 ("not
\* applicable").
C4_Query22NotApplicable ==
    C4_Scenario
    => /\ answer[1].outcome.raised = "none"
       /\ answer[1].outcome.value[1].connected = -1

\* C4 amended: in the scenario query(2,2) reports connected = 0 (touching,
\* not connected): the block is the self-crossing of vertex 1's line, with
\* top = bottom = right = 1 and left = -1, and (1,1) is not an edge.
C4_Query22SelfCrossing ==
    C4_Scenario
    => /\ answer[1].outcome.raised = "none"
       /\ answer[1].outcome.value[1].top = 1
       /\ answer[1].outcome.value[1].bottom = 1
       /\ answer[1].outcome.value[1].left = -1
       /\ answer[1].outcome.value[1].right = 1
       /\ answer[1].outcome.value[1].connected = 0

\* Witness of C4: the scenario's query at (2, 2) returned a block.
C4_Witness ==
    /\ C4_Scenario
    /\ answer[1].outcome.raised = "none"
    /\ Len(answer[1].outcome.value) = 1

\* C5: for any lattice and in-bounds coordinate the returned Block has
\* connected # -1 iff one of left/right and one of top/bottom is a vertex id;
\* then connected is 1 exactly when the graph has an edge between h (left if
\* set, else right) and v (top if set, else bottom), and 0 otherwise.
C5_ConnectedIffBothAxes ==
    (lattice # <<>> /\ answer # <<>> /\ answer[1].outcome.raised = "none")
    => LET blk == answer[1].outcome.value[1]
           hset == blk.left # -1 \/ blk.right # -1
           vset == blk.top # -1 \/ blk.bottom # -1
           h == IF blk.left # -1 THEN blk.left ELSE blk.right
           v == IF blk.top # -1 THEN blk.top ELSE blk.bottom
       IN  /\ (blk.connected # -1) <=> (hset /\ vset)
           /\ blk.connected \in {-1, 0, 1}
           /\ (hset /\ vset) =>
                 ((blk.connected = 1) <=> ({h, v} \in lattice[1].graph.edges))

\* Witness of C5: a block whose left and right come from different lines and
\* that is reported connected.
C5_Witness ==
    /\ created = <<>>
    /\ answer # <<>>
    /\ answer[1].outcome.raised = "none"
    /\ answer[1].outcome.value[1].left # -1
    /\ answer[1].outcome.value[1].right # -1
    /\ answer[1].outcome.value[1].left # answer[1].outcome.value[1].right
    /\ answer[1].outcome.value[1].connected = 1

\* C6: a query at (i, j) raises IndexError and yields no Block exactly when
\* i is outside [1, height] or j is outside [1, width]; every query with
\* 1 <= i <= height and 1 <= j <= width returns a Block without error.
C6_RangeErrorIffOutOfBounds ==
    (lattice # <<>> /\ answer # <<>> /\ Len(answer[1].indices) = 2)
    => LET i == answer[1].indices[1]
           j == answer[1].indices[2]
           out == answer[1].outcome
           outside == \/ i < 1 \/ i > lattice[1].height
                      \/ j < 1 \/ j > lattice[1].width
       IN  /\ outside <=> (out.raised = "IndexError")
           /\ outside => out.value = <<>>
           /\ ~outside => (out.raised = "none" /\ Len(out.value) = 1)

\* Witness of C6: a row index past the height, though not past the width, was
\* refused.
C6_Witness ==
    /\ lattice # <<>>
    /\ answer # <<>>
    /\ Len(answer[1].indices) = 2
    /\ answer[1].indices[1] > lattice[1].height
    /\ answer[1].indices[1] <= lattice[1].width
    /\ answer[1].indices[2] = 1
    /\ answer[1].outcome.raised = "IndexError"

(***************************************************************************)
(* Properties of the geometry emitter.                                     *)
(***************************************************************************)
\* The integers from, from-1, ..., to and from, from+1, ..., to.
Descending(from, to) ==
    [k \in 1..(IF to <= from THEN from - to + 1 ELSE 0) |-> from - k + 1]

Ascending(from, to) ==
    [k \in 1..(IF from <= to THEN to - from + 1 ELSE 0) |-> from + k - 1]

\* The (row, column) pairs of a node sequence.
Coords(locs) == [k \in 1..Len(locs) |-> <<locs[k].i, locs[k].j>>]

\* The sequence <<r, J>> for r in rows, and <<I, c>> for c in cols.
InColumn(rows, J) == [k \in 1..Len(rows) |-> <<rows[k], J>>]

InRow(I, cols) == [k \in 1..Len(cols) |-> <<I, cols[k]>>]

\* The center (I, J) and the run bounds of the emitted CopyLine.
EmI == 4 * (emitted[1].tc.hslot - 1) + emitted[1].padding + 2

EmJ == 4 * (emitted[1].tc.vslot - 1) + emitted[1].padding + 1

EmStart == EmI + 4 * (emitted[1].tc.vstart - emitted[1].tc.hslot) + 1

EmStopDown == EmI + 4 * (emitted[1].tc.vstop - emitted[1].tc.hslot) - 1

EmStopRight == EmJ + 4 * (emitted[1].tc.hstop - emitted[1].tc.vslot) - 1

\* The positions, in the emitted sequence, of the nodes of each run, told by
\* their coordinates: up the column J from row I, down the column J below
\* row I with the turn node, right along row I from column J+2.
UpRunAt ==
    {k \in 1..Len(emitted[1].locations) :
        emitted[1].locations[k].j = EmJ /\ emitted[1].locations[k].i <= EmI}

DownRunAt ==
    {k \in 1..Len(emitted[1].locations) :
        \/ emitted[1].locations[k].j = EmJ /\ emitted[1].locations[k].i > EmI
        \/ emitted[1].locations[k].j = EmJ + 1
             /\ emitted[1].locations[k].i = EmI + 1}

RightRunAt ==
    {k \in 1..Len(emitted[1].locations) :
        emitted[1].locations[k].i = EmI /\ emitted[1].locations[k].j >= EmJ + 2}

CenterAt ==
    {k \in 1..Len(emitted[1].locations) :
        emitted[1].locations[k].i = EmI /\ emitted[1].locations[k].j = EmJ + 1}

LastOf(K) == CHOOSE k \in K : \A m \in K : m <= k

\* Within the run at positions K the last node has weight 1 and lies at
\* (row, col); every other node has weight 2.
HalfWeightAtEnd(K, row, col) ==
    K # {} =>
       /\ emitted[1].locations[LastOf(K)].weight = 1
       /\ emitted[1].locations[LastOf(K)].i = row
       /\ emitted[1].locations[LastOf(K)].j = col
       /\ \A k \in K \ {LastOf(K)} : emitted[1].locations[k].weight = 2

\* C7 as stated: the nodes come in the order upward run, downward run,
\* rightward run, center; the upward run is (i, J) for i = I down to
\* I + 4(vstart - hslot) + 1, non-empty only if vstart < hslot; the downward
\* run is the turn node (I+1, J+1) followed by (i, J) for i = I+1 up to
\* I + 4(vstop - hslot) - 1; the rightward run is (I, j) for j = J+2 up to
\* J + 4(hstop - vslot) - 1; the center (I, J+1) is last.
C7_RunsAlwaysWithTurn ==
    emitted # <<>>
    => LET up == InColumn(Descending(EmI, EmStart), EmJ)
           down == <<<<EmI + 1, EmJ + 1>>>>
                   \o InColumn(Ascending(EmI + 1, EmStopDown), EmJ)
           right == InRow(EmI, Ascending(EmJ + 2, EmStopRight))
       IN  /\ Coords(emitted[1].locations)
                = up \o down \o right \o <<<<EmI, EmJ + 1>>>>
           /\ up # <<>> => emitted[1].tc.vstart < emitted[1].tc.hslot

\* C7 amended: as stated, except that the downward run is empty when
\* vstop <= hslot, turn node included; only when vstop > hslot is it the turn
\* node (I+1, J+1) followed by (i, J) for i = I+1 up to
\* I + 4(vstop - hslot) - 1.
C7_RunsInFixedOrder ==
    emitted # <<>>
    => LET up == InColumn(Descending(EmI, EmStart), EmJ)
           down == IF emitted[1].tc.vstop > emitted[1].tc.hslot
                   THEN <<<<EmI + 1, EmJ + 1>>>>
                        \o InColumn(Ascending(EmI + 1, EmStopDown), EmJ)
                   ELSE <<>>
           right == InRow(EmI, Ascending(EmJ + 2, EmStopRight))
       IN  /\ Coords(emitted[1].locations)
                = up \o down \o right \o <<<<EmI, EmJ + 1>>>>
           /\ up # <<>> => emitted[1].tc.vstart < emitted[1].tc.hslot

\* Witness of C7: a line that grows up and right but not down (its vertical
\* segment stops on its own row) was emitted without a turn node.
C7_Witness ==
    /\ emitted # <<>>
    /\ emitted[1].tc.vstart < emitted[1].tc.hslot
    /\ emitted[1].tc.vstop = emitted[1].tc.hslot
    /\ emitted[1].tc.hstop > emitted[1].tc.vslot
    /\ emitted[1].padding = 1
    /\ DownRunAt = {}
    /\ Len(emitted[1].locations) > 1

\* C8: with the weighted node type exactly one node is emitted at (I, J+1),
\* and its weight is the number of runs among upward, downward and rightward
\* that emitted at least one node (a value in 0..3).
C8_CenterWeightCountsRuns ==
    (emitted # <<>> /\ emitted[1].node_type = "WeightedNode")
    => /\ Cardinality(CenterAt) = 1
       /\ \A k \in CenterAt :
             /\ emitted[1].locations[k].weight
                  = (IF UpRunAt # {} THEN 1 ELSE 0)
                    + (IF DownRunAt # {} THEN 1 ELSE 0)
                    + (IF RightRunAt # {} THEN 1 ELSE 0)
             /\ emitted[1].locations[k].weight \in 0..3

\* Witness of C8: a weighted emission whose center has weight 2, the upward
\* and rightward runs being the two that emitted nodes.
C8_Witness ==
    /\ emitted # <<>>
    /\ emitted[1].node_type = "WeightedNode"
    /\ UpRunAt # {}
    /\ DownRunAt = {}
    /\ RightRunAt # {}
    /\ \E k \in CenterAt : emitted[1].locations[k].weight = 2

\* C9: in the weighted output, within each of the upward, downward and
\* rightward runs the last emitted node, the one at the run's start / stop
\* bound, has weight 1 and every other node of the run, the turn node
\* (I+1, J+1) included, has weight 2.
C9_HalfWeightOnLastNode ==
    (emitted # <<>> /\ emitted[1].node_type = "WeightedNode")
    => /\ HalfWeightAtEnd(UpRunAt, EmStart, EmJ)
       /\ HalfWeightAtEnd(DownRunAt, EmStopDown, EmJ)
       /\ HalfWeightAtEnd(RightRunAt, EmI, EmStopRight)
       /\ \A k \in DownRunAt :
             (emitted[1].locations[k].i = EmI + 1
                /\ emitted[1].locations[k].j = EmJ + 1)
             => emitted[1].locations[k].weight = 2

\* Witness of C9: a weighted emission with all three runs, the turn node
\* first in the downward run.
C9_Witness ==
    /\ emitted # <<>>
    /\ emitted[1].node_type = "WeightedNode"
    /\ UpRunAt # {}
    /\ DownRunAt # {}
    /\ RightRunAt # {}
    /\ emitted[1].locations[LastOf(UpRunAt)].weight = 1
    /\ emitted[1].locations[LastOf(UpRunAt) + 1].i = EmI + 1
    /\ emitted[1].locations[LastOf(UpRunAt) + 1].j = EmJ + 1

\* The k-th emitted node carries the number w as its weight.  Only the
\* weighted node type carries a number; a node of the unweighted type
\* carries ONE_INSTANCE.
WeightIs(emission, k, w) ==
    /\ emission.node_type = "WeightedNode"
    /\ emission.locations[k].weight = w

\* The emitted CopyLine covers only its own row and its own column.
DegenerateLineEmitted ==
    /\ emitted # <<>>
    /\ emitted[1].tc.vstart = emitted[1].tc.hslot
    /\ emitted[1].tc.vstop = emitted[1].tc.hslot
    /\ emitted[1].tc.hstop = emitted[1].tc.vslot

\* C10 as stated: for a CopyLine with vstart = vstop = hslot and
\* hstop = vslot and any padding, copyline_locations emits exactly one node,
\* at (I, J+1), with weight 0, whatever the node type; for vslot = hslot =
\* vstart = vstop = hstop = 1 and padding 0 the node is at (2, 2) with
\* weight 0.
C10_DegenerateLineWeighsZero ==
    DegenerateLineEmitted
    => /\ Len(emitted[1].locations) = 1
       /\ emitted[1].locations[1].i
            = 4 * (emitted[1].tc.hslot - 1) + emitted[1].padding + 2
       /\ emitted[1].locations[1].j
            = 4 * (emitted[1].tc.vslot - 1) + emitted[1].padding + 1 + 1
       /\ WeightIs(emitted[1], 1, 0)
       /\ (emitted[1].tc.vslot = 1 /\ emitted[1].tc.hslot = 1
             /\ emitted[1].padding = 0)
            => (emitted[1].locations[1].i = 2 /\ emitted[1].locations[1].j = 2)

\* C10 amended: for a CopyLine with vstart = vstop = hslot and hstop = vslot
\* and any padding, exactly one node is emitted, at (I, J+1); its weight is 0
\* for the weighted node type and the unit weight ONE_INSTANCE for the
\* unweighted node type; for vslot = hslot = vstart = vstop = hstop = 1 and
\* padding 0 the node is at (2, 2).
C10_DegenerateLineIsOneNode ==
    DegenerateLineEmitted
    => /\ Len(emitted[1].locations) = 1
       /\ emitted[1].locations[1].i
            = 4 * (emitted[1].tc.hslot - 1) + emitted[1].padding + 2
       /\ emitted[1].locations[1].j
            = 4 * (emitted[1].tc.vslot - 1) + emitted[1].padding + 1 + 1
       /\ emitted[1].node_type = "WeightedNode"
            => emitted[1].locations[1].weight = 0
       /\ emitted[1].node_type = "UnWeightedNode"
            => emitted[1].locations[1].weight = ONE_INSTANCE
       /\ (emitted[1].tc.vslot = 1 /\ emitted[1].tc.hslot = 1
             /\ emitted[1].padding = 0)
            => (emitted[1].locations[1].i = 2 /\ emitted[1].locations[1].j = 2)

\* Witness of C10: the fully degenerate line at slot (1, 1), padding 0, was
\* emitted with the unweighted node type as one node at (2, 2) that carries
\* the unit weight.
C10_Witness ==
    /\ emitted # <<>>
    /\ emitted[1].node_type = "UnWeightedNode"
    /\ emitted[1].padding = 0
    /\ emitted[1].tc = CopyLine(0, 1, 1, 1, 1, 1)
    /\ emitted[1].locations = <<[i |-> 2, j |-> 2, weight |-> ONE_INSTANCE]>>

\* The larger of two integers.
Max(a, b) == IF a >= b THEN a ELSE b

\* C14: for a CopyLine with vstart <= hslot <= vstop and hstop >= vslot and
\* any padding >= 0 the emitted nodes have pairwise distinct (row, col)
\* coordinates, so the sequence holds exactly
\* 4(vstop - vstart) + max(0, 4(hstop - vslot) - 2) + 1 distinct grid points.
C14_CoordinatesPairwiseDistinct ==
    (/\ emitted # <<>>
     /\ emitted[1].tc.vstart <= emitted[1].tc.hslot
     /\ emitted[1].tc.hslot <= emitted[1].tc.vstop
     /\ emitted[1].tc.hstop >= emitted[1].tc.vslot
     /\ emitted[1].padding >= 0)
    => LET locs == emitted[1].locations
           count == 4 * (emitted[1].tc.vstop - emitted[1].tc.vstart)
                    + Max(0, 4 * (emitted[1].tc.hstop - emitted[1].tc.vslot) - 2)
                    + 1
       IN  /\ \A k, m \in 1..Len(locs) :
                 k # m => <<locs[k].i, locs[k].j>> # <<locs[m].i, locs[m].j>>
           /\ Len(locs) = count
           /\ Cardinality(Range(Coords(locs))) = count

\* Witness of C14: a well-formed line with an upward, a downward and a
\* rightward run was emitted as 4*2 + 2 + 1 = 11 nodes.
C14_Witness ==
    /\ emitted # <<>>
    /\ emitted[1].tc = CopyLine(0, 1, 2, 1, 3, 2)
    /\ emitted[1].padding = 2
    /\ Len(emitted[1].locations) = 11
    /\ Cardinality(Range(Coords(emitted[1].locations))) = 11

(***************************************************************************)
(* Purity of the lattice query and of the emitter.                         *)
(***************************************************************************)
\* The statement-level runs return what the calls return.
StatementsMatchCalls ==
    /\ (lattice # <<>> /\ answer # <<>>)
         => ExecGetItem(lattice[1], answer[1].indices).outcome
              = __getitem__(lattice[1], answer[1].indices)
    /\ (lattice # <<>> /\ emitted # <<>>)
         => ExecCopylineLocations(lattice[1], emitted[1].node_type,
                                  emitted[1].position,
                                  emitted[1].padding).outcome
              = Return(copyline_locations(
                           emitted[1].node_type,
                           lattice[1].lines[emitted[1].position],
                           emitted[1].padding))

\* The lattice object, its CopyLine list, every CopyLine and the graph are
\* what the construction from the factory's output made them.
HeapAsConstructed ==
    lattice # <<>>
    => LET lines == created[1].outcome.value[1]
       IN  /\ lattice[1].width = Len(lines)
           /\ lattice[1].height = Len(lines)
           /\ lattice[1].lines = lines
           /\ lattice[1].graph = created[1].g

\* Making the recorded calls again, on the heap as it is now, returns what
\* they returned.
RepeatAgrees ==
    /\ (lattice # <<>> /\ answer # <<>>)
         => answer[1].outcome
              = ExecGetItem(lattice[1], answer[1].indices).outcome
    /\ (lattice # <<>> /\ emitted # <<>>)
         => Return(emitted[1].locations)
              = ExecCopylineLocations(lattice[1], emitted[1].node_type,
                                      emitted[1].position,
                                      emitted[1].padding).outcome

\* A call leaves the lattice, its CopyLines and its graph as it found them.
CallKeepsHeap == lattice # <<>> => lattice' = lattice

\* A call that repeats the recorded call, with any calls of the other kind
\* in between, returns the recorded result.
RepeatedCallReturnsSame ==
    /\ (answer # <<>> /\ answer'[1].indices = answer[1].indices)
         => answer'[1].outcome = answer[1].outcome
    /\ (/\ emitted # <<>>
        /\ emitted'[1].node_type = emitted[1].node_type
        /\ emitted'[1].position = emitted[1].position
        /\ emitted'[1].padding = emitted[1].padding)
         => emitted'[1].locations = emitted[1].locations

\* C11: queries and node emission are pure: over any sequence of query and
\* copyline_locations calls the lattice's width, height, CopyLine list, every
\* CopyLine's fields and the graph stay as they were, and repeating a call
\* with identical inputs returns an identical Block or an identical ordered
\* node sequence.
C11_QueryAndEmissionArePure ==
    /\ [][CallKeepsHeap /\ RepeatedCallReturnsSame]_vars
    /\ [](HeapAsConstructed /\ RepeatAgrees)

\* Witness of C11: the query that returned a connected block was made twice
\* in a row, then the second line was emitted twice in a row, as several
\* nodes.
C11_Witness ==
    /\ lattice # <<>>
    /\ answer # <<>>
    /\ emitted # <<>>
    /\ answer[1].repeated
    /\ answer[1].outcome.raised = "none"
    /\ answer[1].outcome.value[1].connected = 1
    /\ emitted[1].repeated
    /\ emitted[1].position = 2
    /\ Len(emitted[1].locations) > 1

(***************************************************************************)
(* PennyLane transpiler: Hamiltonians (transpiler.py).                     *)
(* A Hamiltonian is its qubit count and its terms in iteration order; a    *)
(* term is a sequence of PauliOperators and maps to a coefficient.  The    *)
(* PennyLane operators are written as [name, wire], qml.prod as the list   *)
(* of its operands and qml.Hamiltonian as its coefficients and operators.  *)
(***************************************************************************)
MaxQubits == 2
MaxTerms == 2

PauliOperator(pauli, index) == [pauli |-> pauli, index |-> index]

Hamiltonian(num_qubits, terms) == [num_qubits |-> num_qubits, terms |-> terms]

QmlOp(name, wire) == [name |-> name, wire |-> wire]

\* op_list = [qml.Identity(i) for i in range(n)]; position i + 1 holds wire i.
IdentityList_on_wire_zero(n) == [k \in 1..n |-> QmlOp("Identity", 0)]

IdentityList(n) == [k \in 1..n |-> QmlOp("Identity", k - 1)]

\* The if/elif chain over pauli.pauli; anything else is unsupported.
PauliName(pauli) ==
    CASE pauli = "X" -> "PauliX"
      [] pauli = "Y" -> "PauliY"
      [] pauli = "Z" -> "PauliZ"
      [] OTHER -> "unsupported"

\* The position (from 1) that the list index addresses in a list of n
\* entries: 0..n-1 count from the front, -n..-1 from the back, and any
\* other index is out of range (position 0).
ListPosition(index, n) ==
    IF index \in 0..(n - 1) THEN index + 1
    ELSE IF index \in (0 - n)..(0 - 1) THEN n + index + 1
    ELSE 0

\* The inner loop over one term, from its k-th PauliOperator on: each
\* supported Pauli overwrites op_list[pauli.index] with its operator on wire
\* pauli.index; an unsupported one raises NotImplementedError, an index
\* outside the list IndexError.
RECURSIVE FillOpList(_, _, _)
FillOpList(op_list, term, k) ==
    IF k > Len(term) THEN Return(op_list)
    ELSE LET pauli == term[k]
             position == ListPosition(pauli.index, Len(op_list))
         IN  IF PauliName(pauli.pauli) = "unsupported"
             THEN Raise("NotImplementedError")
             ELSE IF position = 0
             THEN Raise("IndexError")
             ELSE FillOpList(
                    [op_list EXCEPT ![position] =
                        QmlOp(PauliName(pauli.pauli), pauli.index)],
                    term, k + 1)

\* The outer loop from the t-th term on, with the lists built so far.
RECURSIVE TranspileTerms(_, _, _, _)
TranspileTerms(operator, t, coeffs, ops) ==
    IF t > Len(operator.terms)
    THEN Return([coeffs |-> coeffs, ops |-> ops])
    ELSE LET filled == FillOpList(IdentityList(operator.num_qubits),
                                  operator.terms[t].term, 1)
         IN  IF filled.raised # "none" THEN Raise(filled.raised)
             ELSE TranspileTerms(operator, t + 1,
                                 Append(coeffs, operator.terms[t].coeff),
                                 Append(ops, filled.value[1]))

transpile_hamiltonian(operator) == TranspileTerms(operator, 1, <<>>, <<>>)

(***************************************************************************)
(* Hamiltonians handed to the transpiler: up to MaxQubits qubits and       *)
(* MaxTerms terms, each term holding X, Y or Z on distinct qubits in       *)
(* ascending index order, no term twice (terms are dictionary keys).       *)
(***************************************************************************)
Paulis == {"X", "Y", "Z"}

\* The transpiler only appends a coefficient, so two patterns cover it: all
\* terms with the same coefficient, and the t-th term with coefficient t.
CoefficientLists(k) == {[t \in 1..k |-> 1], [t \in 1..k |-> t]}

SortedIndices(S) ==
    CHOOSE s \in [1..Cardinality(S) -> S] :
        \A a, b \in 1..Cardinality(S) : a < b => s[a] < s[b]

TermsOn(n) ==
    UNION {{[k \in 1..Cardinality(S) |->
                PauliOperator(f[SortedIndices(S)[k]], SortedIndices(S)[k])] :
            f \in [S -> Paulis]} : S \in SUBSET (0..(n - 1))}

TermLists(n, k) ==
    {ts \in [1..k -> TermsOn(n)] : \A a, b \in 1..k : a # b => ts[a] # ts[b]}

TranspileHamiltonian ==
    /\ transpiled = <<>>
    /\ \E n \in 1..MaxQubits, k \in 0..MaxTerms :
          \E ts \in TermLists(n, k), cs \in CoefficientLists(k) :
             LET operator ==
                     Hamiltonian(n, [t \in 1..k |->
                                        [term |-> ts[t], coeff |-> cs[t]]])
             IN  transpiled' = <<[operator |-> operator,
                                  outcome |-> transpile_hamiltonian(operator)]>>
    /\ UNCHANGED <<created, lattice, answer, emitted, applied>>

NextHamiltonian == TranspileHamiltonian

SpecHamiltonian == Init /\ [][NextHamiltonian]_vars

\* The factor the term puts on wire i: its Pauli there, else the identity.
FactorOn(term, i) ==
    IF \E k \in 1..Len(term) : term[k].index = i
    THEN LET k == CHOOSE k \in 1..Len(term) : term[k].index = i
         IN  QmlOp(PauliName(term[k].pauli), i)
    ELSE QmlOp("Identity", i)

\* C12: transpile_hamiltonian maps a Hamiltonian with k terms on n qubits to
\* exactly k operators and k coefficients in the terms' iteration order; the
\* t-th operator is a product of exactly n factors, factor i being the term's
\* X, Y or Z operator on wire i where the term has one and the identity on
\* wire i elsewhere, and the t-th coefficient is the t-th term's coefficient.
C12_HamiltonianTermByTerm ==
    transpiled # <<>> =>
        LET operator == transpiled[1].operator
            outcome == transpiled[1].outcome
            k == Len(operator.terms)
            n == operator.num_qubits
        IN  /\ outcome.raised = "none"
            /\ Len(outcome.value[1].ops) = k
            /\ Len(outcome.value[1].coeffs) = k
            /\ \A t \in 1..k :
                  /\ outcome.value[1].coeffs[t] = operator.terms[t].coeff
                  /\ Len(outcome.value[1].ops[t]) = n
                  /\ \A i \in 0..(n - 1) :
                        outcome.value[1].ops[t][i + 1] =
                            FactorOn(operator.terms[t].term, i)

C12_Witness ==
    /\ transpiled # <<>>
    /\ transpiled[1].operator =
          Hamiltonian(2, <<[term |-> <<PauliOperator("Z", 1)>>, coeff |-> 1],
                           [term |-> <<PauliOperator("X", 0),
                                       PauliOperator("Y", 1)>>, coeff |-> 2]>>)
    /\ transpiled[1].outcome =
          Return([coeffs |-> <<1, 2>>,
                  ops |-> <<<<QmlOp("Identity", 0), QmlOp("PauliZ", 1)>>,
                            <<QmlOp("PauliX", 0), QmlOp("PauliY", 1)>>>>])

(***************************************************************************)
(* PennyLane transpiler: circuits (transpiler.py).                         *)
(* A gate carries its class, its gate type, its qubits, its parameter (if  *)
(* any) and, for an Operator, its nested circuit.  Applying a gate queues  *)
(* one PennyLane operation [name, wires, angle]; the queue is the tape.    *)
(* A text (a parameter's name, the text of an expression) is the sequence  *)
(* of its characters, a character being its Unicode code point.  A float   *)
(* is the double [kind, sign, lead, fraction, exponent], read as           *)
(* float.hex() writes it: for kind "finite" the value                      *)
(* sign * (lead + fraction / 16^13) * 2^exponent, the fraction being 13    *)
(* hexadecimal digits; lead is 1 for a normal double, 0 with exponent      *)
(* -1022 for a subnormal one and 0 with exponent 0 for zero, whose sign is *)
(* kept; kinds "inf" and "nan" have lead 0, no fraction and exponent 0.    *)
(* Parameter values passed by the caller are integers.                     *)
(***************************************************************************)
MaxGates == 2
MaxNested == 1

QuantumCircuit(gates) == [gates |-> gates]

Gate(class, gate, qubits, parameter, circuit) ==
    [class |-> class, gate |-> gate, qubits |-> qubits,
     parameter |-> parameter, circuit |-> circuit]

\* A parameter: its name (none for an expression), its text as str() gives
\* it, and the names of the parameters it mentions.
Parameter(name) == [name |-> <<name>>, text |-> name, free |-> <<name>>]

ParameterExpression(text, free) == [name |-> <<>>, text |-> text, free |-> free]

QmlGate(name, wires, angle) == [name |-> name, wires |-> wires, angle |-> angle]

Applied(tape) == [raised |-> "none", tape |-> tape]

Failed(error, tape) == [raised |-> error, tape |-> tape]

SingleQubitGateMap(gate) ==
    CASE gate = "H" -> "Hadamard"
      [] gate = "X" -> "PauliX"
      [] gate = "Y" -> "PauliY"
      [] gate = "Z" -> "PauliZ"
      [] gate = "S" -> "S"
      [] gate = "T" -> "T"
      [] OTHER -> "not in gate_map"

TwoQubitGateMap(gate) ==
    CASE gate = "CNOT" -> "CNOT"
      [] gate = "CZ" -> "CZ"
      [] OTHER -> "not in gate_map"

ParametricSingleQubitGateMap(gate) ==
    CASE gate = "RX" -> "RX"
      [] gate = "RY" -> "RY"
      [] gate = "RZ" -> "RZ"
      [] OTHER -> "not in gate_map"

ParametricTwoQubitGateMap(gate) ==
    CASE gate = "CRX" -> "CRX"
      [] gate = "CRY" -> "CRY"
      [] gate = "CRZ" -> "CRZ"
      [] gate = "RXX" -> "IsingXX"
      [] gate = "RYY" -> "IsingYY"
      [] gate = "RZZ" -> "IsingZZ"
      [] OTHER -> "not in gate_map"

_apply_single_qubit_gate(gate) ==
    IF SingleQubitGateMap(gate.gate) = "not in gate_map"
    THEN Raise("NotImplementedError")
    ELSE Return(QmlGate(SingleQubitGateMap(gate.gate), gate.qubits, <<>>))

_apply_two_qubit_gate(gate) ==
    IF TwoQubitGateMap(gate.gate) = "not in gate_map"
    THEN Raise("NotImplementedError")
    ELSE Return(QmlGate(TwoQubitGateMap(gate.gate), gate.qubits, <<>>))

\* The characters the texts are taken apart at.
Star == 42
Plus == 43
Minus == 45
Point == 46
Zero == 48
QuestionMark == 63
Space == 32
Underscore == 95
UpperE == 69
LowerE == 101

\* The characters str.isspace() holds for: str.strip() removes them.
Whitespace ==
    {9, 10, 11, 12, 13, 28, 29, 30, 31, 32, 133, 160, 5760}
    \cup (8192..8202) \cup {8232, 8233, 8239, 8287, 12288}

\* The whitespace float() removes once the text is ASCII.
AsciiWhitespace == {9, 10, 11, 12, 13, 32}

RECURSIVE LStrip(_, _)
LStrip(text, chars) ==
    IF text # <<>> /\ Head(text) \in chars THEN LStrip(Tail(text), chars)
    ELSE text

RECURSIVE RStrip(_, _)
RStrip(text, chars) ==
    IF text # <<>> /\ text[Len(text)] \in chars
    THEN RStrip(SubSeq(text, 1, Len(text) - 1), chars)
    ELSE text

\* str.strip(): leading and trailing whitespace removed.
Strip(text) == RStrip(LStrip(text, Whitespace), Whitespace)

\* str.split(sep): the pieces between the separators, from the k-th
\* character on, with the piece and the pieces collected so far.
RECURSIVE SplitFrom(_, _, _, _, _)
SplitFrom(text, sep, k, piece, pieces) ==
    IF k > Len(text) THEN Append(pieces, piece)
    ELSE IF text[k] = sep
    THEN SplitFrom(text, sep, k + 1, <<>>, Append(pieces, piece))
    ELSE SplitFrom(text, sep, k + 1, Append(piece, text[k]), pieces)

Split(text, sep) == SplitFrom(text, sep, 1, <<>>, <<>>)

\* The first position of the text holding one of the characters, 0 if none.
FirstIn(text, chars) ==
    IF \E k \in 1..Len(text) : text[k] \in chars
    THEN CHOOSE k \in 1..Len(text) :
             /\ text[k] \in chars
             /\ \A j \in 1..(k - 1) : text[j] \notin chars
    ELSE 0

\* The zero of every run of ten decimal digits of Unicode (14.0), the ASCII
\* digits first; the digit d of a run is the character zero + d.
DecimalZeros ==
    {48, 1632, 1776, 1984, 2406, 2534, 2662, 2790, 2918, 3046, 3174, 3302,
     3430, 3558, 3664, 3792, 3872, 4160, 4240, 6112, 6160, 6470, 6608,
     6784, 6800, 6992, 7088, 7232, 7248, 42528, 43216, 43264, 43472, 43504,
     43600, 44016, 65296, 66720, 68912, 69734, 69872, 69942, 70096, 70384,
     70736, 70864, 71248, 71360, 71472, 71904, 72016, 72784, 73040, 73120,
     92768, 92864, 93008, 120782, 120792, 120802, 120812, 120822, 123200,
     123632, 125264, 130032}

IsDecimal(char) == \E zero \in DecimalZeros : char \in zero..(zero + 9)

DecimalValue(char) ==
    char - (CHOOSE zero \in DecimalZeros : char \in zero..(zero + 9))

\* What float() makes of a character before it parses: an ASCII character
\* stays, any other whitespace becomes a space, any other decimal digit its
\* ASCII digit, and everything else a character no number holds.
ToAscii(char) ==
    IF char < 128 THEN char
    ELSE IF char \in Whitespace THEN Space
    ELSE IF IsDecimal(char) THEN Zero + DecimalValue(char)
    ELSE QuestionMark

DigitChars == Zero..(Zero + 9)

DigitValue(char) == char - Zero

\* Digits with single underscores between them.
IsDigitPart(text) ==
    /\ text # <<>>
    /\ text[1] \in DigitChars
    /\ text[Len(text)] \in DigitChars
    /\ \A k \in 1..Len(text) : text[k] \in DigitChars \cup {Underscore}
    /\ \A k \in 1..(Len(text) - 1) :
          ~(text[k] = Underscore /\ text[k + 1] = Underscore)

\* A character of a digit part that is a digit.
NotUnderscore(char) == char # Underscore

\* The digits of a digit part, most significant first, underscores dropped.
DigitsOf(text) ==
    LET chars == SelectSeq(text, NotUnderscore)
    IN  [k \in 1..Len(chars) |-> DigitValue(chars[k])]

\* The digits from the first one that is not 0 on.
Significant(digits) ==
    LET first == FirstIn(digits, 1..9)
    IN  IF first = 0 THEN <<>> ELSE SubSeq(digits, first, Len(digits))

RECURSIVE SmallValue(_, _, _)
SmallValue(digits, k, value) ==
    IF k > Len(digits) THEN value
    ELSE SmallValue(digits, k + 1, 10 * value + digits[k])

\* The value of the exponent's digits, capped at 10^8: a text shorter than
\* that many characters gives inf or 0 from there on.
ExponentValue(digits) ==
    IF Len(Significant(digits)) > 8 THEN 10^8
    ELSE SmallValue(Significant(digits), 1, 0)

(***************************************************************************)
(* Naturals of any size, as float() and the product need them: the limbs   *)
(* of the number in base 2^15, least significant first, no zero limb at    *)
(* the top; 0 is <<>>.  A sequence of limbs is worked on half by half, the *)
(* carry of the half done first going into the other.                      *)
(***************************************************************************)
LimbBase == 2^15

\* The limbs up to the highest one that is not 0.
Trim(n) ==
    LET used == {k \in 1..Len(n) : n[k] # 0}
    IN  IF used = {} THEN <<>>
        ELSE SubSeq(n, 1, CHOOSE k \in used : \A j \in used : j <= k)

\* The limbs lo..hi of n * m + carry, then the carry out of them;
\* m, carry < 2^15.
RECURSIVE MulAddRange(_, _, _, _, _)
MulAddRange(n, m, carry, lo, hi) ==
    IF lo = hi
    THEN CHOOSE result \in
             {<<t % LimbBase, t \div LimbBase>> :
                 t \in {n[lo] * m + carry}} : TRUE
    ELSE CHOOSE result \in
             {SubSeq(low, 1, Len(low) - 1)
              \o MulAddRange(n, m, low[Len(low)], (lo + hi) \div 2 + 1, hi) :
                 low \in {MulAddRange(n, m, carry, lo, (lo + hi) \div 2)}} : TRUE

\* n * m + add for m, add < 2^15.
MulAdd(n, m, add) ==
    IF n = <<>> THEN (IF add = 0 THEN <<>> ELSE <<add>>)
    ELSE Trim(MulAddRange(n, m, add, 1, Len(n)))

\* The limbs lo..hi of a + b + carry, then the carry out of them.
RECURSIVE AddRange(_, _, _, _, _)
AddRange(a, b, carry, lo, hi) ==
    IF lo = hi
    THEN CHOOSE result \in
             {<<t % LimbBase, t \div LimbBase>> :
                 t \in {(IF lo <= Len(a) THEN a[lo] ELSE 0)
                        + (IF lo <= Len(b) THEN b[lo] ELSE 0) + carry}} : TRUE
    ELSE CHOOSE result \in
             {SubSeq(low, 1, Len(low) - 1)
              \o AddRange(a, b, low[Len(low)], (lo + hi) \div 2 + 1, hi) :
                 low \in {AddRange(a, b, carry, lo, (lo + hi) \div 2)}} : TRUE

Add(a, b) ==
    IF a = <<>> THEN b
    ELSE IF b = <<>> THEN a
    ELSE Trim(AddRange(a, b, 0, 1, IF Len(a) >= Len(b) THEN Len(a) ELSE Len(b)))

\* a * (the number made of the limbs of b from the k-th on).
RECURSIVE MulFrom(_, _, _)
MulFrom(a, b, k) ==
    IF k > Len(b) THEN <<>>
    ELSE CHOOSE result \in
             {Add(low, IF high = <<>> THEN <<>> ELSE <<0>> \o high) :
                 low \in {MulAdd(a, b[k], 0)},
                 high \in {MulFrom(a, b, k + 1)}} : TRUE

\* a * b for a b of a few limbs.
Mul(a, b) == MulFrom(a, b, 1)

\* A natural number of the model as limbs.
RECURSIVE BigOfInt(_)
BigOfInt(v) ==
    IF v = 0 THEN <<>> ELSE <<v % LimbBase>> \o BigOfInt(v \div LimbBase)

\* The number with the given hexadecimal digits, most significant first: n
\* is the number of the digits before the k-th.
RECURSIVE BigOfHexFrom(_, _, _)
BigOfHexFrom(digits, k, n) ==
    IF k > Len(digits) THEN n
    ELSE CHOOSE result \in
             {BigOfHexFrom(digits, k + 1, next) :
                 next \in {MulAdd(n, 16, digits[k])}} : TRUE

\* n * 10^e, up to four powers at a time.
RECURSIVE TimesPow10(_, _)
TimesPow10(n, e) ==
    IF e = 0 THEN n
    ELSE IF e <= 4 THEN MulAdd(n, 10^e, 0)
    ELSE CHOOSE result \in
             {TimesPow10(half, e - e \div 2) :
                 half \in {TimesPow10(n, e \div 2)}} : TRUE

\* The number with the decimal digits lo..hi, most significant first.
RECURSIVE BigOfDecimal(_, _, _)
BigOfDecimal(digits, lo, hi) ==
    IF lo > hi THEN <<>>
    ELSE IF lo = hi THEN BigOfInt(digits[lo])
    ELSE CHOOSE result \in
             {Add(high, low) :
                 high \in {TimesPow10(front, hi - (lo + hi) \div 2) :
                     front \in {BigOfDecimal(digits, lo, (lo + hi) \div 2)}},
                 low \in {BigOfDecimal(digits, (lo + hi) \div 2 + 1, hi)}} : TRUE

\* Long division of the limbs hi down to lo of n by d <= 10^4, rem being
\* the remainder of the limbs above: the remainder, then the quotient's
\* limbs lo..hi.
RECURSIVE DivRange(_, _, _, _, _)
DivRange(n, d, rem, lo, hi) ==
    IF lo = hi
    THEN CHOOSE result \in
             {<<t % d, t \div d>> : t \in {rem * LimbBase + n[lo]}} : TRUE
    ELSE CHOOSE result \in
             {DivRange(n, d, high[1], lo, (lo + hi) \div 2) \o Tail(high) :
                 high \in {DivRange(n, d, rem, (lo + hi) \div 2 + 1, hi)}} : TRUE

\* floor(n / 10^e), up to four powers at a time, and whether it is inexact.
RECURSIVE OverPow10(_, _, _)
OverPow10(n, e, inexact) ==
    IF e = 0 \/ n = <<>> THEN [quotient |-> n, inexact |-> inexact]
    ELSE IF e <= 4
    THEN CHOOSE result \in
             {[quotient |-> Trim(Tail(r)), inexact |-> inexact \/ r[1] # 0] :
                 r \in {DivRange(n, 10^e, 0, 1, Len(n))}} : TRUE
    ELSE CHOOSE result \in
             {OverPow10(first.quotient, e - e \div 2, first.inexact) :
                 first \in {OverPow10(n, e \div 2, inexact)}} : TRUE

\* n * 2^k
ShiftLeft(n, k) ==
    IF n = <<>> THEN <<>>
    ELSE [j \in 1..(k \div 15) |-> 0] \o MulAdd(n, 2^(k % 15), 0)

\* floor(n / 2^k)
ShiftRight(n, k) ==
    LET whole == k \div 15
        part == k % 15
    IN  IF Len(n) <= whole THEN <<>>
        ELSE Trim([j \in 1..(Len(n) - whole) |->
                     (n[whole + j] \div 2^part)
                     + (IF whole + j + 1 <= Len(n)
                        THEN (n[whole + j + 1] % 2^part) * 2^(15 - part)
                        ELSE 0)])

RECURSIVE LimbLength(_)
LimbLength(limb) == IF limb = 0 THEN 0 ELSE 1 + LimbLength(limb \div 2)

\* The number of binary digits of n.
BitLength(n) ==
    IF n = <<>> THEN 0 ELSE 15 * (Len(n) - 1) + LimbLength(n[Len(n)])

\* The binary digit of n that weighs 2^k.
Bit(n, k) ==
    IF k < 0 \/ k \div 15 + 1 > Len(n) THEN 0
    ELSE (n[k \div 15 + 1] \div 2^(k % 15)) % 2

\* The binary digits of n below the one that weighs 2^k are all 0.
LowBitsZero(n, k) ==
    \/ k <= 0
    \/ /\ \A j \in 1..(k \div 15) : j > Len(n) \/ n[j] = 0
       /\ k \div 15 + 1 > Len(n) \/ n[k \div 15 + 1] % 2^(k % 15) = 0

(***************************************************************************)
(* Doubles (IEEE 754 binary64, Python's float), written as float.hex()     *)
(* writes them.                                                            *)
(***************************************************************************)
Double(sign, lead, fraction, exponent) ==
    [kind |-> "finite", sign |-> sign, lead |-> lead, fraction |-> fraction,
     exponent |-> exponent]

Infinity(sign) ==
    [kind |-> "inf", sign |-> sign, lead |-> 0, fraction |-> <<>>,
     exponent |-> 0]

NaN == [kind |-> "nan", sign |-> 1, lead |-> 0, fraction |-> <<>>,
        exponent |-> 0]

\* 0.0 or -0.0: 0x0.0p+0
DoubleZero(sign) == Double(sign, 0, [j \in 1..13 |-> 0], 0)

\* The double m * 2^ulp for a significand m < 2^53 that is normal (2^52 or
\* more) or has ulp = -1074: inf beyond the largest exponent.
Pack(sign, m, ulp) ==
    LET fraction == [j \in 1..13 |->
                        Bit(m, 52 - 4 * j) + 2 * Bit(m, 53 - 4 * j)
                        + 4 * Bit(m, 54 - 4 * j) + 8 * Bit(m, 55 - 4 * j)]
    IN  IF m = <<>> THEN DoubleZero(sign)
        ELSE IF BitLength(m) = 53
        THEN (IF ulp + 52 > 1023 THEN Infinity(sign)
              ELSE Double(sign, 1, fraction, ulp + 52))
        ELSE Double(sign, 0, fraction, 0 - 1022)

\* The double nearest to n * 2^e2, or to a little more than that when
\* inexact, ties going to the even significand: the significand keeps 53
\* binary digits, fewer below 2^-1022.
RoundToDouble(sign, n, e2, inexact) ==
    LET top == BitLength(n) - 1 + e2
        ulp == IF top - 52 >= 0 - 1074 THEN top - 52 ELSE 0 - 1074
        shift == ulp - e2
        up == /\ shift > 0
              /\ Bit(n, shift - 1) = 1
              /\ \/ inexact
                 \/ ~LowBitsZero(n, shift - 1)
                 \/ Bit(n, shift) = 1
    IN  IF n = <<>> THEN DoubleZero(sign)
        ELSE CHOOSE result \in
                 {IF BitLength(m) = 54 THEN Pack(sign, ShiftRight(m, 1), ulp + 1)
                  ELSE Pack(sign, m, ulp) :
                     m \in {IF up THEN MulAdd(kept, 1, 1) ELSE kept :
                         kept \in {IF shift > 0 THEN ShiftRight(n, shift)
                                   ELSE ShiftLeft(n, 0 - shift)}}} : TRUE

\* The double nearest to the number with the given decimal digits (the
\* first not 0) times 10^e10.  Above 10^310 it is inf and below 10^-326 it
\* is 0; a number with a fraction is taken as floor(n * 2^k / 10^-e10) with
\* k = 56 - 4 * e10, which leaves at least 57 binary digits to round.
DecimalToDouble(sign, digits, e10) ==
    LET top == Len(digits) + e10 - 1
    IN  IF digits = <<>> THEN DoubleZero(sign)
        ELSE IF top > 309 THEN Infinity(sign)
        ELSE IF top < 0 - 326 THEN DoubleZero(sign)
        ELSE IF e10 >= 0
        THEN CHOOSE result \in
                 {RoundToDouble(sign, n, 0, FALSE) :
                     n \in {TimesPow10(m, e10) :
                         m \in {BigOfDecimal(digits, 1, Len(digits))}}} : TRUE
        ELSE CHOOSE result \in
                 {RoundToDouble(sign, q.quotient, 4 * e10 - 56, q.inexact) :
                     q \in {OverPow10(n, 0 - e10, FALSE) :
                         n \in {ShiftLeft(m, 56 - 4 * e10) :
                             m \in {BigOfDecimal(digits, 1, Len(digits))}}}} : TRUE

\* coeff * value for a float coeff and an integer value: the value becomes
\* a float (exactly, below 2^53) and the exact product is rounded.
Times(coeff, value) ==
    LET sign == IF value < 0 THEN 0 - coeff.sign ELSE coeff.sign
        size == IF value < 0 THEN 0 - value ELSE value
    IN  IF coeff.kind = "nan" THEN NaN
        ELSE IF coeff.kind = "inf"
        THEN (IF value = 0 THEN NaN ELSE Infinity(sign))
        ELSE CHOOSE result \in
                 {RoundToDouble(sign, n, coeff.exponent - 52, FALSE) :
                     n \in {Mul(m, v) :
                         m \in {BigOfHexFrom(<<coeff.lead>> \o coeff.fraction,
                                             1, <<>>)},
                         v \in {BigOfInt(size)}}} : TRUE

\* ASCII letters in lower case; float() ignores the case of inf and nan.
Lower(char) == IF char \in 65..90 THEN char + 32 ELSE char

\* In the stages below, CHOOSE result \in {F(x) : x \in {value}} : TRUE is
\* F(value) with the value computed once, as a local variable is.
\* The number whose sign, digit parts and exponent have been taken apart.
FloatOfParts(p) ==
    LET well_formed ==
            /\ p.int_part = <<>> \/ IsDigitPart(p.int_part)
            /\ p.frac_part = <<>> \/ IsDigitPart(p.frac_part)
            /\ p.int_part # <<>> \/ p.frac_part # <<>>
            /\ p.has_exponent => IsDigitPart(p.exp_digits)
    IN  IF ~well_formed THEN Raise("ValueError")
        ELSE CHOOSE result \in
                 {Return(DecimalToDouble(
                             p.sign, digits,
                             p.exp_sign * ExponentValue(exp_digits)
                                 - Len(frac_digits))) :
                     digits \in {Significant(DigitsOf(p.int_part)
                                             \o DigitsOf(p.frac_part))},
                     frac_digits \in {DigitsOf(p.frac_part)},
                     exp_digits \in {DigitsOf(p.exp_digits)}} : TRUE

\* The mantissa split at its point.
FloatOfNumber(n) ==
    LET point == FirstIn(n.mantissa, {Point})
    IN  CHOOSE result \in {FloatOfParts(x) : x \in {
            [sign |-> n.sign,
             int_part |-> IF point = 0 THEN n.mantissa
                          ELSE SubSeq(n.mantissa, 1, point - 1),
             frac_part |-> IF point = 0 THEN <<>>
                           ELSE SubSeq(n.mantissa, point + 1, Len(n.mantissa)),
             has_exponent |-> n.has_exponent,
             exp_sign |-> n.exp_sign,
             exp_digits |-> n.exp_digits]}} : TRUE

\* The text after the sign: inf, infinity, nan, or a number split at its
\* exponent mark.
FloatOfBody(b) ==
    LET word == [k \in 1..Len(b.body) |-> Lower(b.body[k])]
        e == FirstIn(b.body, {LowerE, UpperE})
        exponent == IF e = 0 THEN <<>> ELSE SubSeq(b.body, e + 1, Len(b.body))
        exp_signed == exponent # <<>> /\ exponent[1] \in {Plus, Minus}
    IN  IF word \in {<<105, 110, 102>>,
                     <<105, 110, 102, 105, 110, 105, 116, 121>>}
        THEN Return(Infinity(b.sign))
        ELSE IF word = <<110, 97, 110>> THEN Return(NaN)
        ELSE CHOOSE result \in {FloatOfNumber(x) : x \in {
                 [sign |-> b.sign,
                  mantissa |-> IF e = 0 THEN b.body ELSE SubSeq(b.body, 1, e - 1),
                  has_exponent |-> e # 0,
                  exp_sign |-> IF exp_signed /\ exponent[1] = Minus
                               THEN 0 - 1 ELSE 1,
                  exp_digits |-> IF exp_signed THEN Tail(exponent)
                                 ELSE exponent]}} : TRUE

\* The stripped text split into its optional sign and the rest.
FloatOfStripped(stripped) ==
    LET signed == stripped # <<>> /\ stripped[1] \in {Plus, Minus}
    IN  CHOOSE result \in {FloatOfBody(x) : x \in {
            [sign |-> IF signed /\ stripped[1] = Minus THEN 0 - 1 ELSE 1,
             body |-> IF signed THEN Tail(stripped) ELSE stripped]}} : TRUE

\* float(coeff_str): the characters made ASCII, whitespace stripped, an
\* optional sign, then inf, infinity or nan, or a decimal number: digits, an
\* optional point and digits (one of the two digit parts may be missing), an
\* optional exponent.
ParseFloat(coeff_str) ==
    CHOOSE result \in
        {FloatOfStripped(x) :
            x \in {RStrip(LStrip([k \in 1..Len(coeff_str) |-> ToAscii(coeff_str[k])],
                                 AsciiWhitespace), AsciiWhitespace)}} : TRUE

\* The angle of a parameter expression whose text has been split at "*".
AngleOfParts(parts, params) ==
    IF Len(parts) = 2
    THEN LET coeff == ParseFloat(parts[1])
             base_param == parts[2]
         IN  IF coeff.raised # "none" THEN Raise("ValueError")
             ELSE IF base_param \in DOMAIN params
             THEN Return(Times(coeff.value[1], params[base_param]))
             ELSE Raise("ValueError")
    ELSE Raise("ValueError")

StripAll(pieces) == [k \in 1..Len(pieces) |-> Strip(pieces[k])]

_extract_angle(gate, params) ==
    LET parameter == gate.parameter[1]
    IN  IF parameter.name # <<>>
        THEN IF parameter.name[1] \in DOMAIN params
             THEN Return(params[parameter.name[1]])
             ELSE Raise("ValueError")
        ELSE CHOOSE angle \in
                 {AngleOfParts(parts, params) :
                     parts \in {StripAll(Split(Strip(parameter.text), Star))}} : TRUE

_apply_parametric_single_qubit_gate(gate, params) ==
    LET angle == _extract_angle(gate, params)
    IN  IF angle.raised # "none" THEN Raise(angle.raised)
        ELSE IF ParametricSingleQubitGateMap(gate.gate) = "not in gate_map"
        THEN Raise("NotImplementedError")
        ELSE Return(QmlGate(ParametricSingleQubitGateMap(gate.gate),
                            gate.qubits, angle.value))

_apply_parametric_two_qubit_gate(gate, params) ==
    LET angle == _extract_angle(gate, params)
    IN  IF angle.raised # "none" THEN Raise(angle.raised)
        ELSE IF ParametricTwoQubitGateMap(gate.gate) = "not in gate_map"
        THEN Raise("NotImplementedError")
        ELSE Return(QmlGate(ParametricTwoQubitGateMap(gate.gate),
                            gate.qubits, angle.value))

\* One gate handed to its handler: the tape with the new operation, or the
\* handler's error with the tape as it was.
Queue(call, tape) ==
    IF call.raised # "none" THEN Failed(call.raised, tape)
    ELSE Applied(Append(tape, call.value[1]))

\* The loop of _apply_gates from the k-th gate on.  The isinstance chain has
\* six branches and no else: a MeasurementGate passes, and a gate of any other
\* class matches no branch, so the loop moves on with the tape unchanged.
RECURSIVE ApplyGatesFrom(_, _, _, _)
ApplyGatesFrom(gates, k, params, tape) ==
    IF k > Len(gates) THEN Applied(tape)
    ELSE LET gate == gates[k]
             step ==
                 CASE gate.class = "SingleQubitGate" ->
                          Queue(_apply_single_qubit_gate(gate), tape)
                   [] gate.class = "TwoQubitGate" ->
                          Queue(_apply_two_qubit_gate(gate), tape)
                   [] gate.class = "ParametricSingleQubitGate" ->
                          Queue(_apply_parametric_single_qubit_gate(gate, params), tape)
                   [] gate.class = "ParametricTwoQubitGate" ->
                          Queue(_apply_parametric_two_qubit_gate(gate, params), tape)
                   [] gate.class = "Operator" ->
                          ApplyGatesFrom(gate.circuit[1].gates, 1, params, tape)
                   [] gate.class = "MeasurementGate" -> Applied(tape)
                   [] OTHER -> Applied(tape)
         IN  IF step.raised # "none" THEN step
             ELSE ApplyGatesFrom(gates, k + 1, params, step.tape)

_apply_gates(qamomile_circuit, params) ==
    ApplyGatesFrom(qamomile_circuit.gates, 1, params, <<>>)

\* qamomile_circuit.get_parameters(), by name: the parameters the gates
\* mention, nested circuits included, each once, in order of appearance.
RECURSIVE AddNames(_, _, _)
AddNames(names, free, k) ==
    IF k > Len(free) THEN names
    ELSE AddNames(IF free[k] \in Range(names) THEN names
                  ELSE Append(names, free[k]), free, k + 1)

RECURSIVE ParameterNamesFrom(_, _, _)
ParameterNamesFrom(gates, k, names) ==
    IF k > Len(gates) THEN names
    ELSE LET gate == gates[k]
             seen ==
                 IF gate.circuit # <<>>
                 THEN ParameterNamesFrom(gate.circuit[1].gates, 1, names)
                 ELSE IF gate.parameter # <<>>
                 THEN AddNames(names, gate.parameter[1].free, 1)
                 ELSE names
         IN  ParameterNamesFrom(gates, k + 1, seen)

\* transpile_circuit: the closure keeps the circuit and its parameter names.
transpile_circuit(qamomile_circuit) ==
    [qamomile_circuit |-> qamomile_circuit,
     ordered_param_names |-> ParameterNamesFrom(qamomile_circuit.gates, 1, <<>>)]

NoParams == [pname \in {} |-> 0]

\* circuit_fn(*args, **kwargs) of the closure.  The positional values go to
\* the parameter names in order; of a name listed twice the last value stays.
circuit_fn(closure, args, kwargs) ==
    LET ordered_param_names == closure.ordered_param_names
        vector == Len(args) = 1 /\ args[1].has_shape
        positional_params ==
            IF vector
            THEN [pname \in Range(ordered_param_names) |->
                     LET k == CHOOSE k \in 1..Len(ordered_param_names) :
                                  /\ ordered_param_names[k] = pname
                                  /\ \A j \in (k + 1)..Len(ordered_param_names) :
                                        ordered_param_names[j] # pname
                     IN  args[1].values[k]]
            ELSE NoParams
        final_params ==
            [pname \in DOMAIN positional_params \cup DOMAIN kwargs |->
                IF pname \in DOMAIN kwargs THEN kwargs[pname]
                ELSE positional_params[pname]]
    IN  IF vector /\ Len(args[1].values) # Len(ordered_param_names)
        THEN Failed("ValueError", <<>>)
        ELSE IF \E k \in 1..Len(ordered_param_names) :
                    ordered_param_names[k] \notin DOMAIN final_params
        THEN Failed("ValueError", <<>>)
        ELSE _apply_gates(closure.qamomile_circuit, final_params)

(***************************************************************************)
(* Circuits handed to the transpiler: up to MaxGates gates, an Operator    *)
(* holding up to MaxNested plain gates.  Every gate class of the circuit   *)
(* library occurs, the three-qubit and the exponential gates included,     *)
(* and each handler also meets a gate type its gate_map does not list.     *)
(***************************************************************************)
\* "theta"
ThetaName == <<116, 104, 101, 116, 97>>

Theta == Parameter(ThetaName)

\* "2.0*theta"
TwiceTheta ==
    ParameterExpression(<<50, Point, Zero, Star>> \o ThetaName, <<ThetaName>>)

\* "-1.5 * theta"
MinusThreeHalvesTheta ==
    ParameterExpression(<<Minus, 49, Point, 53, Space, Star, Space>> \o ThetaName,
                        <<ThetaName>>)

\* "theta + 1"
ThetaPlusOne ==
    ParameterExpression(ThetaName \o <<Space, Plus, Space, 49>>, <<ThetaName>>)

PlainGates ==
    {Gate("SingleQubitGate", type, <<0>>, <<>>, <<>>) :
        type \in {"H", "X", "Y", "Z", "S", "T", "unlisted"}}
    \cup {Gate("TwoQubitGate", type, <<0, 1>>, <<>>, <<>>) :
        type \in {"CNOT", "CZ", "unlisted"}}
    \cup {Gate("ParametricSingleQubitGate", type, <<1>>, <<Theta>>, <<>>) :
        type \in {"RX", "RY", "RZ", "unlisted"}}
    \cup {Gate("ParametricTwoQubitGate", type, <<1, 0>>, <<Theta>>, <<>>) :
        type \in {"CRX", "CRY", "CRZ", "RXX", "RYY", "RZZ", "unlisted"}}
    \cup {Gate("ParametricSingleQubitGate", "RX", <<1>>, <<parameter>>, <<>>) :
        parameter \in {TwiceTheta, MinusThreeHalvesTheta, ThetaPlusOne}}
    \cup {Gate("ParametricTwoQubitGate", "RZZ", <<1, 0>>, <<parameter>>, <<>>) :
        parameter \in {TwiceTheta, ThetaPlusOne}}
    \cup {Gate("ThreeQubitGate", "CCX", <<0, 1, 2>>, <<>>, <<>>),
          Gate("ParametricExpGate", "EXP", <<0, 1>>, <<Theta>>, <<>>),
          Gate("MeasurementGate", "MEASURE", <<0>>, <<>>, <<>>)}

OperatorGates ==
    {Gate("Operator", "OPERATOR", <<>>, <<>>, <<QuantumCircuit(body)>>) :
        body \in SeqsUpTo(PlainGates, MaxNested)}

Circuits ==
    {QuantumCircuit(gates) :
        gates \in SeqsUpTo(PlainGates \cup OperatorGates, MaxGates)}

CallArgs ==
    {<<>>,
     <<[has_shape |-> TRUE, values |-> <<3>>]>>,
     <<[has_shape |-> TRUE, values |-> <<>>]>>,
     <<[has_shape |-> FALSE, values |-> <<>>]>>}

CallKwargs == {NoParams, [pname \in {ThetaName} |-> 5]}

TranspileCircuit ==
    /\ transpiled = <<>>
    /\ applied = <<>>
    /\ \E qamomile_circuit \in Circuits :
          transpiled' = <<transpile_circuit(qamomile_circuit)>>
    /\ UNCHANGED <<created, lattice, answer, emitted, applied>>

CallCircuitFn ==
    /\ transpiled # <<>>
    /\ applied = <<>>
    /\ \E args \in CallArgs, kwargs \in CallKwargs :
          applied' = <<[args |-> args, kwargs |-> kwargs,
                        outcome |-> circuit_fn(transpiled[1], args, kwargs)]>>
    /\ UNCHANGED <<created, lattice, answer, emitted, transpiled>>

NextCircuit == TranspileCircuit \/ CallCircuitFn

SpecCircuit == Init /\ [][NextCircuit]_vars

\* The gates of a circuit in the order they are met, nested circuits opened.
RECURSIVE FlattenFrom(_, _)
FlattenFrom(gates, k) ==
    IF k > Len(gates) THEN <<>>
    ELSE (IF gates[k].circuit # <<>>
          THEN FlattenFrom(gates[k].circuit[1].gates, 1)
          ELSE <<gates[k]>>) \o FlattenFrom(gates, k + 1)

NotMeasurement(gate) == gate.class # "MeasurementGate"

\* The target gate of a gate, by class and type.
TargetGate(gate) ==
    CASE gate.class = "SingleQubitGate" -> SingleQubitGateMap(gate.gate)
      [] gate.class = "TwoQubitGate" -> TwoQubitGateMap(gate.gate)
      [] gate.class = "ParametricSingleQubitGate" ->
             ParametricSingleQubitGateMap(gate.gate)
      [] gate.class = "ParametricTwoQubitGate" ->
             ParametricTwoQubitGateMap(gate.gate)
      [] OTHER -> "not in gate_map"

Translates(op, gate) ==
    /\ TargetGate(gate) # "not in gate_map"
    /\ op.name = TargetGate(gate)
    /\ op.wires = gate.qubits

\* C13: when the circuit function applies the gates (no parameter error),
\* in circuit order with nested Operator circuits opened, every gate other
\* than a measurement is either translated to its target gate or the call
\* raises NotImplementedError: the tape holds the translations of the gates
\* met so far, of all of them if the call returned, and no gate is skipped.
C13_UnsupportedKindFailsLoudly ==
    (applied # <<>> /\ applied[1].outcome.raised # "ValueError") =>
        LET outcome == applied[1].outcome
            gates == SelectSeq(FlattenFrom(transpiled[1].qamomile_circuit.gates, 1),
                               NotMeasurement)
        IN  /\ outcome.raised \in {"none", "NotImplementedError"}
            /\ Len(outcome.tape) <= Len(gates)
            /\ \A k \in 1..Len(outcome.tape) : Translates(outcome.tape[k], gates[k])
            /\ outcome.raised = "none" => Len(outcome.tape) = Len(gates)

====
